---- MODULE Spec2Model ----
(***************************************************************************)
(* The Code Mode daemon subsystem of open-webui:                           *)
(*   backend/open_webui/utils/daemon_executor.py  (supervisor and runner)  *)
(*   backend/open_webui/routers/code_mode.py      (session registry, tool  *)
(*                                                 proxy, binding store)   *)
(*   backend/open_webui/utils/code_mode.py        (binding generator and   *)
(*                                                 the generated bindings) *)
(*   backend/open_webui/utils/mcp/client.py       (MCP client)             *)
(*                                                                         *)
(* Everything runs on one asyncio event loop.  A coroutine runs without    *)
(* interruption from one suspension point (await) to the next, so one      *)
(* action of the model is one such stretch of code.  Task.cancel() makes   *)
(* the next resumption of the task raise CancelledError at the await it    *)
(* is suspended in; a task cancelled before its first step never enters    *)
(* the body of its coroutine.                                              *)
(***************************************************************************)
EXTENDS Integers, Sequences, FiniteSets, TLC

\* daemon_executor.py:23
MAX_DAEMONS_PER_USER == 3

\* Bounds of the model.
MaxDaemons == 1
\* start_daemon calls that get a kernel, in Spec
MaxQuotaDaemons == 4
\* the same, in SpecQuota
MaxStops == 1
\* daemons that stop_daemon cancels in one behaviour of SpecQuota
MaxShareDaemons == 2
\* the same, in SpecShare
MaxFrames == 2
\* frames the kernel gateway sends in one behaviour
MaxCleanupDaemons == 3
\* start_daemon calls that get a kernel, in SpecCleanup
MaxListed == 2
\* entries of the daemon table, in SpecList
MaxCalls == 1
\* POST /call requests under way at one time
MaxFailedStarts == 1
\* start_daemon calls whose kernel creation fails
MaxStartDaemons == 2
\* start_daemon calls that get a kernel, in SpecStart

Users == {"u1", "u2"}
Sessions == {"s1"}
None == "None"
\* max_runtime arguments: zero and the default (daemon_executor.py:133)
MaxRuntimes == {0, 3600}

\* Python truthiness of an Optional[str] argument: None and "" are false
Truthy(x) == x \notin {None, ""}

VARIABLES
    _active_daemons,   \* keys of the daemon table (daemon_executor.py:39)
    info,              \* the DaemonInfo object of every daemon ever stored
    _active_sessions,  \* session registry: session_id -> entry (code_mode.py:40)
    starting,          \* start_daemon calls suspended in _create_jupyter_session
    task,              \* the runner task of every daemon: position and locals
    events,            \* per daemon, the _emit_output/_emit_status calls in order
    fx,                \* per daemon, what the runner did to external resources
    kernels,           \* kernels alive at the gateway
    stop_call,         \* per daemon, where the runner was when the stop_daemon call
                       \* now suspended in `await info.task` cancelled it, or None
    cleanup,           \* per user, a cleanup_user_daemons call in progress
    received,          \* number of frames the runners have received so far
    ret,               \* what the step just taken returned or raised to its caller
    calls,             \* the POST /call requests of the kernels, each with its answer
    _user_bindings,    \* per user, binding text and session id (code_mode.py:45)
    http,              \* aiohttp.ClientSession objects: how many were created
                       \* (daemon_executor.py:62) and how many closed so far
    client,            \* the fields of one MCPClient object (mcp/client.py:17-21)
    transport          \* what the MCPClient did to the MCP library: sessions, the
                       \* ClientSession objects created (named "1", "2", ...);
                       \* closed, those whose context was left; attempts, the
                       \* connections tried, the last of them to `last`;
                       \* connects, the calls of connect that succeeded

vars == <<_active_daemons, info, _active_sessions, starting, task, events,
          fx, kernels, stop_call, cleanup, received, ret, calls, _user_bindings,
          http, client, transport>>

\* user_id and daemon_id are the call's argument (None, 0: not an argument);
\* out is the value returned: a daemon id, a count, or "True"/"False"
NoRet == [op |-> None, user_id |-> None, daemon_id |-> 0, out |-> 0, raised |-> None]
StartReturned(user_id, d) ==
    [op |-> "start_daemon", user_id |-> user_id, daemon_id |-> 0, out |-> d,
     raised |-> None]
StartRaised(user_id, exc) ==
    [op |-> "start_daemon", user_id |-> user_id, daemon_id |-> 0, out |-> 0,
     raised |-> exc]
\* True and False are 1 and 0
StopReturned(d, found) ==
    [op |-> "stop_daemon", user_id |-> None, daemon_id |-> d,
     out |-> IF found THEN 1 ELSE 0, raised |-> None]
CleanupReturned(user_id, n) ==
    [op |-> "cleanup_user_daemons", user_id |-> user_id, daemon_id |-> 0, out |-> n,
     raised |-> None]

\* Every daemon id handed out so far; ids are fresh (uuid4), here 1, 2, ...
Created == DOMAIN info

----------------------------------------------------------------------------
(* Frames of the Jupyter wire protocol *)

\* content.get(...) defaults: text "", traceback [], name "stdout"
EmptyContent ==
    [name |-> "stdout", text |-> "", plain |-> None, traceback |-> <<>>,
     execution_state |-> None]

FrameBodies ==
    { [msg_type |-> "stream", content |-> [EmptyContent EXCEPT !.text = "visible\n"]],
      [msg_type |-> "stream",
       content |-> [EmptyContent EXCEPT !.name = "stderr", !.text = "warn\n"]],
      [msg_type |-> "stream", content |-> EmptyContent],
      [msg_type |-> "execute_result", content |-> [EmptyContent EXCEPT !.plain = "42"]],
      [msg_type |-> "display_data", content |-> EmptyContent],
      [msg_type |-> "error",
       content |-> [EmptyContent EXCEPT
                      !.traceback = <<"Traceback:", "ZeroDivisionError: division by zero">>]],
      [msg_type |-> "status", content |-> [EmptyContent EXCEPT !.execution_state = "idle"]],
      [msg_type |-> "status", content |-> [EmptyContent EXCEPT !.execution_state = "busy"]],
      [msg_type |-> "execute_input", content |-> EmptyContent] }

\* The msg_id of runner d's execute request is fresh (uuid4): here d itself.
\* A frame answers that request, or carries another parent msg_id.
ForeignMsgId == 0
MsgId(d) == d

Frames(d) ==
    { [parent_msg_id |-> p, msg_type |-> b.msg_type, content |-> b.content] :
        p \in {MsgId(d), ForeignMsgId}, b \in FrameBodies }

\* "\n".join(lines)
RECURSIVE Join(_, _)
Join(sep, lines) ==
    IF lines = <<>> THEN ""
    ELSE IF Len(lines) = 1 THEN lines[1]
    ELSE lines[1] \o sep \o Join(sep, Tail(lines))

----------------------------------------------------------------------------
(* Events handed to the event sink *)

OutputEvent(stream, content) ==
    [type |-> "daemon:output", stream |-> stream, content |-> content]

StatusEvent(status, reason) ==
    [type |-> "daemon:status", status |-> status, reason |-> reason]

\* the f-string of daemon_executor.py:246
TimeoutText(max_runtime) ==
    "\nBackground script exceeded max runtime (" \o ToString(max_runtime)
        \o "s). Stopping."

----------------------------------------------------------------------------
(* Initial state: empty tables, nothing running *)

\* requests: execute requests sent; skipped: frames dropped by the msg_id filter;
\* delete, close, unregister, pop: the steps of `finally`
NoFx ==
    [requests |-> 0, skipped |-> 0, delete |-> 0, close |-> 0, unregister |-> 0,
     pop |-> 0]

StartArgs == Users \X (Sessions \cup {None}) \X MaxRuntimes

\* MCPClient.__init__ (mcp/client.py:17-21)
NewClient == [session |-> None, exit_stack |-> None, _url |-> None, _headers |-> None]

Init ==
    /\ _active_daemons = {}
    /\ info = <<>>
    /\ _active_sessions = <<>>
    /\ starting = [a \in StartArgs |-> 0]
    /\ task = <<>>
    /\ events = <<>>
    /\ fx = <<>>
    /\ kernels = {}
    /\ stop_call = <<>>
    /\ cleanup = [u \in Users |-> [pc |-> "idle", to_stop |-> <<>>, i |-> 0,
                                    at |-> None, known |-> 0]]
    /\ received = 0
    /\ ret = NoRet
    /\ calls = <<>>
    /\ _user_bindings = <<>>
    /\ http = [opened |-> 0, closed |-> 0]
    /\ client = NewClient
    /\ transport = [sessions |-> 0, closed |-> {}, attempts |-> 0, last |-> <<>>,
                    connects |-> 0]

----------------------------------------------------------------------------
(* Session registry (routers/code_mode.py) *)

\* a tool catalog maps a tool name to its entry; of an entry, the model keeps
\* whether it has a "callable" (the invoker)
NoTools == [t \in {} |-> [callable |-> FALSE]]

Registered(sessions, session_id, user_id, mcp_tools) ==
    [s \in DOMAIN sessions \cup {session_id} |->
        IF s = session_id THEN [user_id |-> user_id, tools |-> mcp_tools]
        ELSE sessions[s]]

\* the effect of unregister_code_mode_session on the registry
Unregistered(sessions, session_id) ==
    IF session_id \in DOMAIN sessions
    THEN [s \in DOMAIN sessions \ {session_id} |-> sessions[s]]
    ELSE sessions

register_code_mode_session(session_id, user_id, mcp_tools) ==
    /\ _active_sessions' = Registered(_active_sessions, session_id, user_id, mcp_tools)
    /\ ret' = NoRet
    /\ UNCHANGED <<_active_daemons, info, starting, task, events, fx, kernels,
                   stop_call, cleanup, received,
                   calls, _user_bindings,
                   http, client, transport>>

\* an explicit teardown call, from outside the daemon subsystem
unregister_code_mode_session(session_id) ==
    /\ _active_sessions' = Unregistered(_active_sessions, session_id)
    /\ ret' = NoRet
    /\ UNCHANGED <<_active_daemons, info, starting, task, events, fx, kernels,
                   stop_call, cleanup, received,
                   calls, _user_bindings,
                   http, client, transport>>

----------------------------------------------------------------------------
(* Tool proxy: POST /call (routers/code_mode.py) *)

ToolNames == {"t1", "t2"}

\* catalogs a session is registered with: empty, one tool with an invoker, one
\* without, one of each
Catalogs ==
    { NoTools,
      [t \in {"t1"} |-> [callable |-> TRUE]],
      [t \in {"t1"} |-> [callable |-> FALSE]],
      [t \in ToolNames |-> [callable |-> (t = "t1")]] }

\* what `await tool_callable(**arguments)` does: it returns a value (a result
\* envelope, or None) or raises an exception e, of which str(e) is kept
ToolOutcomes ==
    { [kind |-> "return", value |-> "envelope"],
      [kind |-> "return", value |-> None],
      [kind |-> "raise", value |-> "boom"],
      [kind |-> "raise", value |-> ""] }

\* the answer to a request: the HTTP status, the two fields of
\* MCPToolCallResponse (None: null), and whether the invoker was called
Response(session_id, tool_name, status_code, result, error, invoked) ==
    [op |-> "call_mcp_tool", session_id |-> session_id, tool_name |-> tool_name,
     status_code |-> status_code, result |-> result, error |-> error,
     invoked |-> invoked]

\* faulty variant: an entry without invoker is answered like a tool that failed
CallResponseNoIntegrityCheck(sessions, session_id, tool_name, outcome) ==
    IF session_id \notin DOMAIN sessions
    THEN Response(session_id, tool_name, 404, None, None, FALSE)
    ELSE IF tool_name \notin DOMAIN sessions[session_id].tools
    THEN Response(session_id, tool_name, 404, None, None, FALSE)
    ELSE IF ~sessions[session_id].tools[tool_name].callable
    THEN Response(session_id, tool_name, 200, None, "not callable", FALSE)
    ELSE IF outcome.kind = "return"
    THEN Response(session_id, tool_name, 200, outcome.value, None, TRUE)
    ELSE Response(session_id, tool_name, 200, None, outcome.value, TRUE)

\* call_mcp_tool; after `await tool_callable(...)` it reads only its locals
CallResponse(sessions, session_id, tool_name, outcome) ==
    IF session_id \notin DOMAIN sessions
    THEN Response(session_id, tool_name, 404, None, None, FALSE)
    ELSE IF tool_name \notin DOMAIN sessions[session_id].tools
    THEN Response(session_id, tool_name, 404, None, None, FALSE)
    ELSE IF ~sessions[session_id].tools[tool_name].callable
    THEN Response(session_id, tool_name, 500, None, None, FALSE)
    ELSE IF outcome.kind = "return"
    THEN Response(session_id, tool_name, 200, outcome.value, None, TRUE)
    ELSE Response(session_id, tool_name, 200, None, outcome.value, TRUE)

\* A request under way: the session_id and tool_name of its body, the registry
\* entry of that session when the request arrived (<<>>: none), the handler's
\* local `session` while it awaits the invoker (<<>>: not there), and the answer.
NoAnswer == Response(None, None, 0, None, None, FALSE)

EntryOf(sessions, session_id) ==
    IF session_id \in DOMAIN sessions THEN <<sessions[session_id]>> ELSE <<>>

\* the generated _call_mcp_tool up to urlopen: the request reaches the server
post_call(session_id, tool_name) ==
    /\ Len(calls) < MaxCalls
    /\ calls' = Append(calls, [session_id |-> session_id, tool_name |-> tool_name,
                               on_arrival |-> EntryOf(_active_sessions, session_id),
                               session |-> <<>>,
                               answer |-> NoAnswer])
    /\ ret' = NoRet
    /\ UNCHANGED <<_active_daemons, info, _active_sessions, starting, task, events,
                   fx, kernels, stop_call, cleanup, received, _user_bindings,
                   http, client, transport>>

\* faulty variant: the handler sees the registry as it was when the request came
SessionsOnArrival(call) ==
    [s \in {call.session_id : e \in DOMAIN call.on_arrival} |-> call.on_arrival[1]]

\* get_code_mode_session reads the registry when the handler runs
SessionsAtLookup(call) == _active_sessions

\* the handler of request i, run by the event loop some time after its arrival,
\* up to its HTTPException or to `await tool_callable(**arguments)`
call_mcp_tool(i) ==
    /\ i \in DOMAIN calls
    /\ calls[i].answer = NoAnswer
    /\ calls[i].session = <<>>
    /\ LET sessions == SessionsAtLookup(calls[i])
           r == CallResponse(sessions, calls[i].session_id, calls[i].tool_name,
                             [kind |-> "return", value |-> None])
       IN IF r.invoked
          THEN /\ calls' = [calls EXCEPT ![i].session = <<sessions[calls[i].session_id]>>]
               /\ ret' = NoRet
          ELSE /\ calls' = [calls EXCEPT ![i].answer = r]
               /\ ret' = r
    /\ UNCHANGED <<_active_daemons, info, _active_sessions, starting, task, events,
                   fx, kernels, stop_call, cleanup, received, _user_bindings,
                   http, client, transport>>

\* faulty variant: the session is looked up again when the invoker has ended
call_mcp_tool_looks_up_again(i, outcome) ==
    /\ i \in DOMAIN calls
    /\ calls[i].answer = NoAnswer
    /\ calls[i].session # <<>>
    /\ LET r == CallResponse(_active_sessions, calls[i].session_id,
                             calls[i].tool_name, outcome)
       IN /\ ret' = r
          /\ calls' = [calls EXCEPT ![i].answer = r]
    /\ UNCHANGED <<_active_daemons, info, _active_sessions, starting, task, events,
                   fx, kernels, stop_call, cleanup, received, _user_bindings,
                   http, client, transport>>

\* the invoker awaited at line 140 returns or raises: the handler answers from
\* its locals `session`, `tools` and `tool_callable`
call_mcp_tool_returns(i, outcome) ==
    /\ i \in DOMAIN calls
    /\ calls[i].answer = NoAnswer
    /\ calls[i].session # <<>>
    /\ LET locals == [s \in {calls[i].session_id} |-> calls[i].session[1]]
           r == CallResponse(locals, calls[i].session_id, calls[i].tool_name, outcome)
       IN /\ ret' = r
          /\ calls' = [calls EXCEPT ![i].answer = r]
    /\ UNCHANGED <<_active_daemons, info, _active_sessions, starting, task, events,
                   fx, kernels, stop_call, cleanup, received, _user_bindings,
                   http, client, transport>>

----------------------------------------------------------------------------
(* The generated binding, in the kernel (utils/code_mode.py:185-210) *)

\* What _call_mcp_tool does with the answer: urlopen raises HTTPError on a
\* status other than 200; a body whose "error" is truthy makes it raise that
\* error; otherwise it returns _unwrap_mcp_content of the body's "result".
BindingOutcome(response) ==
    IF response.status_code # 200
    THEN [op |-> "_call_mcp_tool", response |-> response, raised |-> TRUE,
          message |-> "MCP tool call failed", unwraps |-> None]
    ELSE IF Truthy(response.error)
    THEN [op |-> "_call_mcp_tool", response |-> response, raised |-> TRUE,
          message |-> response.error, unwraps |-> None]
    ELSE [op |-> "_call_mcp_tool", response |-> response, raised |-> FALSE,
          message |-> None, unwraps |-> response.result]

Without(seq, i) == SubSeq(seq, 1, i - 1) \o SubSeq(seq, i + 1, Len(seq))

\* the answer of request i reaches the kernel and _call_mcp_tool ends
_call_mcp_tool(i) ==
    /\ i \in DOMAIN calls
    /\ calls[i].answer # NoAnswer
    /\ ret' = BindingOutcome(calls[i].answer)
    /\ calls' = Without(calls, i)
    /\ UNCHANGED <<_active_daemons, info, _active_sessions, starting, task, events,
                   fx, kernels, stop_call, cleanup, received, _user_bindings,
                   http, client, transport>>

----------------------------------------------------------------------------
(* Python values and JSON texts (json.loads, json.dumps) *)

\* Python values: None, bool, int, str (its characters), list, dict (its items
\* in insertion order, each <<key, value>> with a str key)
PyNone == [kind |-> "none", val |-> <<>>]
PyBool(b) == [kind |-> "bool", val |-> b]
PyInt(n) == [kind |-> "int", val |-> n]
PyStr(chars) == [kind |-> "str", val |-> chars]
PyList(elems) == [kind |-> "list", val |-> elems]
PyDict(items) == [kind |-> "dict", val |-> items]

\* d[key] = value on a dict: a new key goes last, a known key keeps its place
RECURSIVE DictSet(_, _, _)
DictSet(items, key, value) ==
    IF items = <<>> THEN <<<<key, value>>>>
    ELSE IF Head(items)[1] = key THEN <<<<key, value>>>> \o Tail(items)
    ELSE <<Head(items)>> \o DictSet(Tail(items), key, value)

\* d.get(key, default)
RECURSIVE DictGet(_, _, _)
DictGet(items, key, default) ==
    IF items = <<>> THEN default
    ELSE IF Head(items)[1] = key THEN Head(items)[2]
    ELSE DictGet(Tail(items), key, default)

\* json.loads on a str, for JSON without escapes, fractions, exponents and
\* signs: a text is the sequence of its characters.  A parse gives ok (FALSE:
\* JSONDecodeError), the value and the position after it.
DigitVal ==
    ("0" :> 0) @@ ("1" :> 1) @@ ("2" :> 2) @@ ("3" :> 3) @@ ("4" :> 4) @@
    ("5" :> 5) @@ ("6" :> 6) @@ ("7" :> 7) @@ ("8" :> 8) @@ ("9" :> 9)

\* json.loads(raw): TypeError for a raw that is not a str, JSONDecodeError for
\* a text that is no JSON value or has something after it
json_loads(raw) ==
    LET
        ParseFailed == [ok |-> FALSE, val |-> PyNone, pos |-> 0]
        Parsed(v, p) == [ok |-> TRUE, val |-> v, pos |-> p]
        RECURSIVE SkipWs(_, _)
        SkipWs(t, p) == IF p <= Len(t) /\ t[p] = " " THEN SkipWs(t, p + 1) ELSE p
        StartsWith(t, p, word) ==
            /\ p + Len(word) - 1 <= Len(t)
            /\ SubSeq(t, p, p + Len(word) - 1) = word
        RECURSIVE ParseDigits(_, _, _)
        ParseDigits(t, p, n) ==
            IF p <= Len(t) /\ t[p] \in DOMAIN DigitVal
            THEN ParseDigits(t, p + 1, 10 * n + DigitVal[t[p]])
            ELSE Parsed(PyInt(n), p)
        \* a leading zero ends the number
        ParseInt(t, p) ==
            IF t[p] = "0" THEN Parsed(PyInt(0), p + 1) ELSE ParseDigits(t, p, 0)
        RECURSIVE ParseString(_, _, _)
        ParseString(t, p, chars) ==
            IF p > Len(t) THEN ParseFailed
            ELSE IF t[p] = "\"" THEN Parsed(PyStr(chars), p + 1)
            ELSE ParseString(t, p + 1, Append(chars, t[p]))
        RECURSIVE ParseValue(_, _)
        RECURSIVE ParseElems(_, _, _)
        RECURSIVE ParseItems(_, _, _)
        ParseValue(t, p0) ==
            LET p == SkipWs(t, p0)
            IN IF p > Len(t) THEN ParseFailed
               ELSE IF t[p] = "[" THEN
                    LET q == SkipWs(t, p + 1)
                    IN IF q <= Len(t) /\ t[q] = "]" THEN Parsed(PyList(<<>>), q + 1)
                       ELSE ParseElems(t, q, <<>>)
               ELSE IF t[p] = "{" THEN
                    LET q == SkipWs(t, p + 1)
                    IN IF q <= Len(t) /\ t[q] = "}" THEN Parsed(PyDict(<<>>), q + 1)
                       ELSE ParseItems(t, q, <<>>)
               ELSE IF t[p] = "\"" THEN ParseString(t, p + 1, <<>>)
               ELSE IF t[p] \in DOMAIN DigitVal THEN ParseInt(t, p)
               ELSE IF StartsWith(t, p, <<"n", "u", "l", "l">>) THEN Parsed(PyNone, p + 4)
               ELSE IF StartsWith(t, p, <<"t", "r", "u", "e">>) THEN Parsed(PyBool(TRUE), p + 4)
               ELSE IF StartsWith(t, p, <<"f", "a", "l", "s", "e">>)
               THEN Parsed(PyBool(FALSE), p + 5)
               ELSE ParseFailed
        \* the elements of an array, from the first one on
        ParseElems(t, p, elems) ==
            LET r == ParseValue(t, p)
            IN IF ~r.ok THEN ParseFailed
               ELSE LET q == SkipWs(t, r.pos)
                    IN IF q > Len(t) THEN ParseFailed
                       ELSE IF t[q] = "]" THEN Parsed(PyList(Append(elems, r.val)), q + 1)
                       ELSE IF t[q] = "," THEN ParseElems(t, q + 1, Append(elems, r.val))
                       ELSE ParseFailed
        \* the members of an object, from the first one on
        ParseItems(t, p0, items) ==
            LET p == SkipWs(t, p0)
            IN IF p > Len(t) \/ t[p] # "\"" THEN ParseFailed
               ELSE LET k == ParseString(t, p + 1, <<>>)
                    IN IF ~k.ok THEN ParseFailed
                       ELSE LET c == SkipWs(t, k.pos)
                            IN IF c > Len(t) \/ t[c] # ":" THEN ParseFailed
                               ELSE LET r == ParseValue(t, c + 1)
                                    IN IF ~r.ok THEN ParseFailed
                                       ELSE LET q == SkipWs(t, r.pos)
                                                now == DictSet(items, k.val.val, r.val)
                                            IN IF q > Len(t) THEN ParseFailed
                                               ELSE IF t[q] = "}"
                                               THEN Parsed(PyDict(now), q + 1)
                                               ELSE IF t[q] = ","
                                               THEN ParseItems(t, q + 1, now)
                                               ELSE ParseFailed
    IN IF raw.kind # "str" THEN [ok |-> FALSE, val |-> PyNone, error |-> "TypeError"]
       ELSE LET r == ParseValue(raw.val, 1)
            IN IF r.ok /\ SkipWs(raw.val, r.pos) = Len(raw.val) + 1
               THEN [ok |-> TRUE, val |-> r.val, error |-> None]
               ELSE [ok |-> FALSE, val |-> PyNone, error |-> "JSONDecodeError"]

\* json.dumps(v) with its default separators ", " and ": "
RECURSIVE json_dumps(_)
json_dumps(v) ==
    LET RECURSIVE IntChars(_)
        IntChars(n) ==
            LET c == CHOOSE x \in DOMAIN DigitVal : DigitVal[x] = n % 10
            IN IF n < 10 THEN <<c>> ELSE IntChars(n \div 10) \o <<c>>
        RECURSIVE DumpElems(_)
        DumpElems(elems) ==
            IF elems = <<>> THEN <<>>
            ELSE IF Len(elems) = 1 THEN json_dumps(elems[1])
            ELSE json_dumps(elems[1]) \o <<",", " ">> \o DumpElems(Tail(elems))
        RECURSIVE DumpItems(_)
        DumpItems(items) ==
            LET first == <<"\"">> \o items[1][1] \o <<"\"", ":", " ">>
                             \o json_dumps(items[1][2])
            IN IF items = <<>> THEN <<>>
               ELSE IF Len(items) = 1 THEN first
               ELSE first \o <<",", " ">> \o DumpItems(Tail(items))
    IN IF v.kind = "none" THEN <<"n", "u", "l", "l">>
       ELSE IF v.kind = "bool"
       THEN (IF v.val THEN <<"t", "r", "u", "e">> ELSE <<"f", "a", "l", "s", "e">>)
       ELSE IF v.kind = "int" THEN IntChars(v.val)
       ELSE IF v.kind = "str" THEN <<"\"">> \o v.val \o <<"\"">>
       ELSE IF v.kind = "list" THEN <<"[">> \o DumpElems(v.val) \o <<"]">>
       ELSE <<"{">> \o DumpItems(v.val) \o <<"}">>

----------------------------------------------------------------------------
(* Daemon supervisor (utils/daemon_executor.py) *)

\* faulty variant: every entry of the user counts, whatever its status
CountAnyStatus(user_id) ==
    Cardinality({d \in _active_daemons : info[d].user_id = user_id})

_get_user_daemon_count(user_id) ==
    Cardinality({d \in _active_daemons :
                    info[d].user_id = user_id /\ info[d].status = "running"})

RECURSIVE SumOver(_, _)
SumOver(f, S) ==
    IF S = {} THEN 0
    ELSE LET a == CHOOSE x \in S : TRUE IN f[a] + SumOver(f, S \ {a})

\* start_daemon calls that passed the quota check: suspended or registered
Started == Len(info) + SumOver(starting, StartArgs)

NewTask(max_runtime) ==
    [pc |-> "created", info |-> FALSE, must_cancel |-> FALSE,
     max_runtime |-> max_runtime, expired |-> (max_runtime <= 0), exc |-> None,
     sink |-> "working"]

\* start_daemon up to its suspension point: the quota check, then
\* `await _create_jupyter_session(...)`, which creates its aiohttp session
\* (line 62) before it first awaits the gateway
start_daemon_call(user_id, session_id, max_runtime) ==
    /\ IF _get_user_daemon_count(user_id) >= MAX_DAEMONS_PER_USER
       THEN /\ ret' = StartRaised(user_id, "RuntimeError")
            /\ UNCHANGED <<starting, http>>
       ELSE /\ starting' = [starting EXCEPT ![<<user_id, session_id, max_runtime>>] = @ + 1]
            /\ http' = [http EXCEPT !.opened = @ + 1]
            /\ ret' = NoRet
    /\ UNCHANGED <<_active_daemons, info, _active_sessions, task, events, fx,
                   kernels, stop_call, cleanup, received,
                   calls, _user_bindings,
                   client, transport>>

\* faulty variant: the entry is not in the table when the new task first runs
start_daemon_created_unstored(a, event_emitter) ==
    /\ starting[a] > 0
    /\ starting' = [starting EXCEPT ![a] = @ - 1]
    /\ LET d == Len(info) + 1
       IN /\ kernels' = kernels \cup {d}
          /\ task' = Append(task, [NewTask(a[3]) EXCEPT !.sink = event_emitter])
          /\ info' = Append(info, [user_id |-> a[1], code_mode_session_id |-> a[2],
                                   status |-> "running"])
          /\ ret' = StartReturned(a[1], d)
    /\ events' = Append(events, <<>>)
    /\ fx' = Append(fx, NoFx)
    /\ stop_call' = Append(stop_call, None)
    /\ UNCHANGED <<_active_daemons, _active_sessions, cleanup, received, calls,
                   _user_bindings, http, client, transport>>

\* start_daemon from the kernel's creation to its return: the runner task is
\* created (not yet run) and the entry is stored, with no suspension between
start_daemon_created_with(a, event_emitter) ==
    /\ starting[a] > 0
    /\ starting' = [starting EXCEPT ![a] = @ - 1]
    /\ LET d == Len(info) + 1
       IN /\ kernels' = kernels \cup {d}
          /\ task' = Append(task, [NewTask(a[3]) EXCEPT !.sink = event_emitter])
          /\ info' = Append(info, [user_id |-> a[1], code_mode_session_id |-> a[2],
                                   status |-> "running"])
          /\ _active_daemons' = _active_daemons \cup {d}
          /\ ret' = StartReturned(a[1], d)
    /\ events' = Append(events, <<>>)
    /\ fx' = Append(fx, NoFx)
    /\ stop_call' = Append(stop_call, None)
    /\ UNCHANGED <<_active_sessions, cleanup, received,
                   calls, _user_bindings,
                   http, client, transport>>

\* the same, called with an event sink that works
start_daemon_created(a) == start_daemon_created_with(a, "working")

\* faulty variant: the runner task is spawned and the entry stored before the
\* gateway's answer is looked at
start_daemon_failed_after_spawn(a) ==
    /\ starting[a] > 0
    /\ starting' = [starting EXCEPT ![a] = @ - 1]
    /\ LET d == Len(info) + 1
       IN /\ task' = Append(task, NewTask(a[3]))
          /\ info' = Append(info, [user_id |-> a[1], code_mode_session_id |-> a[2],
                                   status |-> "running"])
          /\ _active_daemons' = _active_daemons \cup {d}
    /\ events' = Append(events, <<>>)
    /\ fx' = Append(fx, NoFx)
    /\ stop_call' = Append(stop_call, None)
    /\ ret' = StartRaised(a[1], "ClientResponseError")
    /\ UNCHANGED <<_active_sessions, kernels, cleanup, received, calls,
                   _user_bindings, http, client, transport>>

\* _create_jupyter_session raises (login rejected, non-2xx from the gateway):
\* raise_for_status() is inside `async with session.get/post`, nothing catches
\* it, nothing closes the aiohttp session, and the error leaves start_daemon
start_daemon_failed(a) ==
    /\ starting[a] > 0
    /\ starting' = [starting EXCEPT ![a] = @ - 1]
    /\ ret' = StartRaised(a[1], "ClientResponseError")
    /\ UNCHANGED <<_active_daemons, info, _active_sessions, task, events, fx,
                   kernels, stop_call, cleanup, received,
                   calls, _user_bindings,
                   http, client, transport>>

\* the task has finished: its coroutine returned ("done"), CancelledError left
\* it from inside `finally` ("cancelled"), or it was cancelled before it ran
TaskDone(t) == t.pc \in {"done", "cancelled", "unstarted"}

\* faulty variant: stop_daemon cancels without setting the status
MarkNothing(inf, d) == inf

\* info.status = "stopped" in stop_daemon
MarkStopped(inf, d) == [inf EXCEPT ![d].status = "stopped"]

\* info.task.cancel(): a no-op on a finished task
Cancel(tk, d) ==
    IF TaskDone(tk[d]) THEN tk
    ELSE [tk EXCEPT ![d].must_cancel = TRUE]

\* faulty variant: stop_daemon without its check of the status
StopWhateverStatus(d) == TRUE

\* the condition under which stop_daemon cancels
ShouldStop(d) == info[d].status = "running"

\* stop_daemon up to `await info.task`, or to its return when it does not wait
stop_daemon(d) ==
    /\ IF d \notin _active_daemons
       THEN /\ ret' = StopReturned(d, FALSE)
            /\ UNCHANGED <<info, task, stop_call,
                           calls, _user_bindings,
                           http, client, transport>>
       ELSE IF ShouldStop(d)
       THEN /\ info' = MarkStopped(info, d)
            /\ task' = Cancel(task, d)
            /\ IF TaskDone(task[d])
               THEN /\ ret' = StopReturned(d, TRUE)
                    /\ UNCHANGED stop_call
               ELSE /\ stop_call' = [stop_call EXCEPT ![d] = task[d].pc]
                    /\ ret' = NoRet
       ELSE /\ ret' = StopReturned(d, TRUE)
            /\ UNCHANGED <<info, task, stop_call,
                           calls, _user_bindings,
                           http, client, transport>>
    /\ UNCHANGED <<_active_daemons, _active_sessions, starting, events, fx,
                   kernels, cleanup, received,
                   calls, _user_bindings,
                   http, client, transport>>

\* `await info.task` ends when the runner task has finished, however it did
stop_daemon_resume(d) ==
    /\ stop_call[d] # None
    /\ TaskDone(task[d])
    /\ stop_call' = [stop_call EXCEPT ![d] = None]
    /\ ret' = StopReturned(d, TRUE)
    /\ UNCHANGED <<_active_daemons, info, _active_sessions, starting, task,
                   events, fx, kernels, cleanup, received,
                   calls, _user_bindings,
                   http, client, transport>>

\* the keys of a dict in insertion order: daemon ids are numbered as stored
RECURSIVE InOrder(_)
InOrder(S) ==
    IF S = {} THEN <<>>
    ELSE LET m == CHOOSE x \in S : \A y \in S : x <= y
         IN <<m>> \o InOrder(S \ {m})

\* faulty variant: the running daemons of every user
ToStopOfAnyUser(user_id) ==
    InOrder({d \in _active_daemons : info[d].status = "running"})

\* the list comprehension over _active_daemons.items()
ToStop(user_id) ==
    InOrder({d \in _active_daemons :
                info[d].user_id = user_id /\ info[d].status = "running"})

\* the for loop of cleanup_user_daemons from index i to its next suspension:
\* stop_daemon returns at once for an entry that is gone or not running;
\* `known` records how many daemon ids had been handed out when the call began
CleanupLoop(user_id, to_stop, i) ==
    LET waits == {j \in i..Len(to_stop) :
                     /\ to_stop[j] \in _active_daemons
                     /\ ShouldStop(to_stop[j])
                     /\ ~TaskDone(task[to_stop[j]])}
    IN IF waits = {}
       THEN /\ cleanup' = [cleanup EXCEPT ![user_id] =
                              [pc |-> "idle", to_stop |-> <<>>, i |-> 0, at |-> None,
                               known |-> 0]]
            /\ ret' = CleanupReturned(user_id, Len(to_stop))
            /\ UNCHANGED <<info, task,
                           calls, _user_bindings,
                           http, client, transport>>
       ELSE LET j == CHOOSE x \in waits : \A y \in waits : x <= y
            IN /\ info' = MarkStopped(info, to_stop[j])
               /\ task' = Cancel(task, to_stop[j])
               /\ cleanup' = [cleanup EXCEPT ![user_id] =
                                 [pc |-> "await", to_stop |-> to_stop, i |-> j,
                                  at |-> task[to_stop[j]].pc,
                                  known |-> IF cleanup[user_id].pc = "idle"
                                            THEN Len(info)
                                            ELSE cleanup[user_id].known]]
               /\ ret' = NoRet

cleanup_user_daemons(user_id) ==
    /\ cleanup[user_id].pc = "idle"
    /\ CleanupLoop(user_id, ToStop(user_id), 1)
    /\ UNCHANGED <<_active_daemons, _active_sessions, starting, events, fx,
                   kernels, stop_call, received,
                   calls, _user_bindings,
                   http, client, transport>>

cleanup_resume(user_id) ==
    /\ cleanup[user_id].pc = "await"
    /\ TaskDone(task[cleanup[user_id].to_stop[cleanup[user_id].i]])
    /\ CleanupLoop(user_id, cleanup[user_id].to_stop, cleanup[user_id].i + 1)
    /\ UNCHANGED <<_active_daemons, _active_sessions, starting, events, fx,
                   kernels, stop_call, received,
                   calls, _user_bindings,
                   http, client, transport>>

----------------------------------------------------------------------------
(* Daemon runner: _run_daemon, one task per daemon *)

\* suspension points inside `try` ... `async with websockets.connect(...)`
InTry == {"connect", "emit_running", "recv", "emit_output", "emit_tb",
          "emit_timeout", "ws_close", "exc_close"}
\* suspension points inside `finally`
InFinally == {"fin_delete", "fin_close"}

\* faulty variant: the status is left as it is
StatusKept(inf, d, status) == inf

\* `if info: info.status = status`
SetStatus(inf, d, status) ==
    IF task[d].info THEN [inf EXCEPT ![d].status = status] ELSE inf

\* The event sink given to start_daemon: a coroutine function that works, one
\* that raises an Exception on every call, or None.
Sinks == {"working", "raising", "null"}

\* `await event_emitter({...})`
SinkCall(sink) == IF sink = "raising" THEN "raises" ELSE "returns"

\* faulty variant: _emit_* without its try/except
EmitUnguarded(sink) == sink = "null" \/ SinkCall(sink) = "returns"

\* whether a call of _emit_output or _emit_status returns to the runner: it
\* returns at once without a sink, and `except Exception` swallows what the
\* sink raises
EmitReturns(sink) ==
    IF sink = "null" THEN TRUE
    ELSE IF SinkCall(sink) = "raises" THEN TRUE
    ELSE TRUE

SinkErrorText == "sink failed"

\* faulty variant: the newest event is put before the earlier ones
EmitAhead(ev, d, e) == [ev EXCEPT ![d] = <<e>> \o @]

\* a call of _emit_output or _emit_status: the sink gets the event
Emit(ev, d, e) == [ev EXCEPT ![d] = Append(@, e)]

\* `finally:` is entered: the DELETE of the kernel is issued
EnterFinally(tk, d) == [tk EXCEPT ![d].pc = "fin_delete", ![d].must_cancel = FALSE]
\* faulty variant: `finally` without the DELETE
DeleteForgotten(f, d) == f

DeleteIssued(f, d) == [f EXCEPT ![d].delete = @ + 1]

\* faulty variant: no filter on parent_header.msg_id
MatchesAnything(d, frame) == TRUE

\* the frame filter: parent_header.msg_id against the execute request's msg_id
Matches(d, frame) == frame.parent_msg_id = MsgId(d)

\* faulty variant: an error frame is emitted like a stream frame, without the break
DispatchErrorAsStream(frame) ==
    LET c == frame.content
    IN CASE frame.msg_type = "stream" ->
              IF c.text # "" THEN [do |-> "output", stream |-> c.name, content |-> c.text]
              ELSE [do |-> "continue"]
         [] frame.msg_type \in {"execute_result", "display_data"} ->
              IF c.plain # None
              THEN [do |-> "output", stream |-> "stdout", content |-> c.plain]
              ELSE [do |-> "continue"]
         [] frame.msg_type = "error" ->
              [do |-> "output", stream |-> "stderr", content |-> Join("\n", c.traceback)]
         [] frame.msg_type = "status" ->
              IF c.execution_state = "idle" THEN [do |-> "idle"] ELSE [do |-> "continue"]
         [] OTHER -> [do |-> "continue"]

\* faulty variant: every status frame ends the run, whatever its execution_state
DispatchAnyStatusAsIdle(frame) ==
    LET c == frame.content
    IN CASE frame.msg_type = "stream" ->
              IF c.text # "" THEN [do |-> "output", stream |-> c.name, content |-> c.text]
              ELSE [do |-> "continue"]
         [] frame.msg_type \in {"execute_result", "display_data"} ->
              IF c.plain # None
              THEN [do |-> "output", stream |-> "stdout", content |-> c.plain]
              ELSE [do |-> "continue"]
         [] frame.msg_type = "error" ->
              [do |-> "error", stream |-> "stderr", content |-> Join("\n", c.traceback)]
         [] frame.msg_type = "status" -> [do |-> "idle"]
         [] OTHER -> [do |-> "continue"]

\* what the dispatch on msg_type does with a matching frame
Dispatch(frame) ==
    LET c == frame.content
    IN CASE frame.msg_type = "stream" ->
              IF c.text # "" THEN [do |-> "output", stream |-> c.name, content |-> c.text]
              ELSE [do |-> "continue"]
         [] frame.msg_type \in {"execute_result", "display_data"} ->
              IF c.plain # None
              THEN [do |-> "output", stream |-> "stdout", content |-> c.plain]
              ELSE [do |-> "continue"]
         [] frame.msg_type = "error" ->
              [do |-> "error", stream |-> "stderr", content |-> Join("\n", c.traceback)]
         [] frame.msg_type = "status" ->
              IF c.execution_state = "idle" THEN [do |-> "idle"] ELSE [do |-> "continue"]
         [] OTHER -> [do |-> "continue"]

\* faulty variant: the loop never looks at the deadline
DeadlineIgnored(d) == FALSE

\* the head of `while True`: the deadline check, then a new ws.recv()
DeadlinePassed(d) == task[d].expired

LoopTop(d) ==
    IF DeadlinePassed(d)
    THEN /\ task' = [task EXCEPT ![d].pc = "emit_timeout"]
         /\ events' = Emit(events, d, OutputEvent("stderr", TimeoutText(task[d].max_runtime)))
    ELSE /\ task' = [task EXCEPT ![d].pc = "recv"]
         /\ UNCHANGED events

\* first step of the task: the entry is looked up; then suspended in
\* websockets.connect or in ws.send
run_start(d) ==
    /\ task[d].pc = "created"
    /\ ~task[d].must_cancel
    /\ task' = [task EXCEPT ![d].pc = "connect", ![d].info = (d \in _active_daemons)]
    /\ ret' = NoRet
    /\ UNCHANGED <<_active_daemons, info, _active_sessions, starting, events, fx,
                   kernels, stop_call, cleanup, received,
                   calls, _user_bindings,
                   http, client, transport>>

\* faulty variant: the request is sent and the loop entered without the
\* running status
run_connected_silent(d) ==
    /\ task[d].pc = "connect"
    /\ ~task[d].must_cancel
    /\ task' = [task EXCEPT ![d].pc = "recv"]
    /\ fx' = [fx EXCEPT ![d].requests = @ + 1]
    /\ ret' = NoRet
    /\ UNCHANGED <<_active_daemons, info, _active_sessions, starting, events,
                   kernels, stop_call, cleanup, received, calls, _user_bindings,
                   http, client, transport>>

\* connected and the execute request sent: _emit_status(running)
run_connected(d) ==
    /\ task[d].pc = "connect"
    /\ ~task[d].must_cancel
    /\ task' = [task EXCEPT ![d].pc = "emit_running"]
    /\ fx' = [fx EXCEPT ![d].requests = @ + 1]
    /\ events' = Emit(events, d, StatusEvent("running", ""))
    /\ ret' = NoRet
    /\ UNCHANGED <<_active_daemons, info, _active_sessions, starting, kernels,
                   stop_call, cleanup, received,
                   calls, _user_bindings,
                   http, client, transport>>

\* an exception of the sink reaches the runner: `except Exception`, `finally`
EmitRaised(d) ==
    /\ info' = SetStatus(info, d, "error")
    /\ events' = Emit(events, d, StatusEvent("error", SinkErrorText))
    /\ task' = [EnterFinally(task, d) EXCEPT ![d].exc = SinkErrorText]
    /\ fx' = DeleteIssued(fx, d)

\* an _emit_* call made inside the loop (or before it) returns: loop head
run_emitted(d) ==
    /\ task[d].pc \in {"emit_running", "emit_output"}
    /\ ~task[d].must_cancel
    /\ IF EmitReturns(task[d].sink)
       THEN LoopTop(d) /\ UNCHANGED <<info, fx>>
       ELSE EmitRaised(d)
    /\ ret' = NoRet
    /\ UNCHANGED <<_active_daemons, _active_sessions, starting,
                   kernels, stop_call, cleanup, received,
                   calls, _user_bindings,
                   http, client, transport>>

\* ws.recv() returns the frame the kernel sent: filter, dispatch
run_recv(d, frame) ==
    /\ task[d].pc = "recv"
    /\ ~task[d].must_cancel
    /\ received' = received + 1
    /\ LET x == Dispatch(frame)
       IN IF ~Matches(d, frame)
          THEN /\ LoopTop(d)
               /\ fx' = [fx EXCEPT ![d].skipped = @ + 1]
               /\ UNCHANGED info
          ELSE IF x.do = "continue"
          THEN /\ LoopTop(d)
               /\ UNCHANGED <<info, fx>>
          ELSE IF x.do = "output"
          THEN /\ events' = Emit(events, d, OutputEvent(x.stream, x.content))
               /\ task' = [task EXCEPT ![d].pc = "emit_output"]
               /\ UNCHANGED <<info, fx>>
          ELSE IF x.do = "error"
          THEN /\ events' = Emit(events, d, OutputEvent(x.stream, x.content))
               /\ task' = [task EXCEPT ![d].pc = "emit_tb"]
               /\ UNCHANGED <<info, fx>>
          ELSE /\ info' = SetStatus(info, d, "completed")
               /\ events' = Emit(events, d, StatusEvent("completed", "Script finished"))
               /\ task' = EnterFinally(task, d)
               /\ fx' = DeleteIssued(fx, d)
    /\ ret' = NoRet
    /\ UNCHANGED <<_active_daemons, _active_sessions, starting, kernels, stop_call,
                   cleanup,
                   calls, _user_bindings,
                   http, client, transport>>

\* asyncio.wait_for times out: back to the loop head, nothing emitted
run_recv_timeout(d) ==
    /\ task[d].pc = "recv"
    /\ ~task[d].must_cancel
    /\ LoopTop(d)
    /\ ret' = NoRet
    /\ UNCHANGED <<_active_daemons, info, _active_sessions, starting, fx,
                   kernels, stop_call, cleanup, received,
                   calls, _user_bindings,
                   http, client, transport>>

\* the traceback was emitted: status error, its event, break
run_emitted_traceback(d) ==
    /\ task[d].pc = "emit_tb"
    /\ ~task[d].must_cancel
    /\ IF EmitReturns(task[d].sink)
       THEN /\ info' = SetStatus(info, d, "error")
            /\ events' = Emit(events, d, StatusEvent("error", "Script raised an error"))
            /\ task' = EnterFinally(task, d)
            /\ fx' = DeleteIssued(fx, d)
       ELSE EmitRaised(d)
    /\ ret' = NoRet
    /\ UNCHANGED <<_active_daemons, _active_sessions, starting, kernels,
                   stop_call, cleanup, received,
                   calls, _user_bindings,
                   http, client, transport>>

\* the timeout text was emitted: break, the WebSocket is being closed
run_emitted_timeout(d) ==
    /\ task[d].pc = "emit_timeout"
    /\ ~task[d].must_cancel
    /\ IF EmitReturns(task[d].sink)
       THEN /\ task' = [task EXCEPT ![d].pc = "ws_close"]
            /\ UNCHANGED <<info, events, fx>>
       ELSE EmitRaised(d)
    /\ ret' = NoRet
    /\ UNCHANGED <<_active_daemons, _active_sessions, starting,
                   kernels, stop_call, cleanup, received,
                   calls, _user_bindings,
                   http, client, transport>>

\* the WebSocket is closed after the deadline's break: finally
run_ws_closed(d) ==
    /\ task[d].pc = "ws_close"
    /\ ~task[d].must_cancel
    /\ task' = EnterFinally(task, d)
    /\ fx' = DeleteIssued(fx, d)
    /\ ret' = NoRet
    /\ UNCHANGED <<_active_daemons, info, _active_sessions, starting, events,
                   kernels, stop_call, cleanup, received,
                   calls, _user_bindings,
                   http, client, transport>>

ExcText == "connection closed"

\* connect, send or recv raises, the connection is gone: `except Exception`
run_raises(d) ==
    /\ task[d].pc \in {"connect", "recv"}
    /\ ~task[d].must_cancel
    /\ info' = SetStatus(info, d, "error")
    /\ events' = Emit(events, d, StatusEvent("error", ExcText))
    /\ task' = [EnterFinally(task, d) EXCEPT ![d].exc = ExcText]
    /\ fx' = DeleteIssued(fx, d)
    /\ ret' = NoRet
    /\ UNCHANGED <<_active_daemons, _active_sessions, starting, kernels,
                   stop_call, cleanup, received,
                   calls, _user_bindings,
                   http, client, transport>>

\* Frames that are not the JSON text of an object: no JSON at all, or the JSON
\* of a list.
MalformedTexts == { <<"h", "i">>, <<"[", "1", "]">> }

\* str(e) of what line 258 or 259 raises on such a text: json.loads raises
\* JSONDecodeError; a value that is no dict has no .get (AttributeError)
FrameError(text) ==
    IF ~json_loads(PyStr(text)).ok THEN "Expecting value"
    ELSE IF json_loads(PyStr(text)).val.kind # "dict" THEN "object has no attribute 'get'"
    ELSE None

\* ws.recv() returns such a text: the exception leaves `async with`, whose exit
\* closes the open WebSocket before `except Exception` is reached
run_recv_malformed(d, text) ==
    /\ task[d].pc = "recv"
    /\ ~task[d].must_cancel
    /\ FrameError(text) # None
    /\ received' = received + 1
    /\ task' = [task EXCEPT ![d].pc = "exc_close", ![d].exc = FrameError(text)]
    /\ ret' = NoRet
    /\ UNCHANGED <<_active_daemons, info, _active_sessions, starting, events, fx,
                   kernels, stop_call, cleanup, calls, _user_bindings,
                   http, client, transport>>

\* the WebSocket is closed with the exception pending: `except Exception`
run_exc_closed(d) ==
    /\ task[d].pc = "exc_close"
    /\ ~task[d].must_cancel
    /\ info' = SetStatus(info, d, "error")
    /\ events' = Emit(events, d, StatusEvent("error", task[d].exc))
    /\ task' = EnterFinally(task, d)
    /\ fx' = DeleteIssued(fx, d)
    /\ ret' = NoRet
    /\ UNCHANGED <<_active_daemons, _active_sessions, starting, kernels,
                   stop_call, cleanup, received, calls, _user_bindings,
                   http, client, transport>>

\* the task is resumed after Task.cancel(): CancelledError is raised where it
\* is suspended
run_cancelled(d) ==
    /\ task[d].must_cancel
    /\ ~TaskDone(task[d])
    /\ IF task[d].pc \in InTry
       THEN \* `except asyncio.CancelledError`, then `finally`
            /\ info' = SetStatus(info, d, "stopped")
            /\ events' = Emit(events, d, StatusEvent("stopped", "Stopped by user"))
            /\ task' = EnterFinally(task, d)
            /\ fx' = DeleteIssued(fx, d)
       ELSE \* not yet started, or inside `finally`: the error leaves the task
            /\ task' = [task EXCEPT
                          ![d].pc = IF task[d].pc = "created" THEN "unstarted"
                                    ELSE "cancelled",
                          ![d].must_cancel = FALSE]
            /\ UNCHANGED <<info, events, fx>>
    /\ ret' = NoRet
    /\ UNCHANGED <<_active_daemons, _active_sessions, starting, kernels,
                   stop_call, cleanup, received,
                   calls, _user_bindings,
                   http, client, transport>>

\* the DELETE is answered (an error answer is logged): session.close()
run_kernel_deleted(d) ==
    /\ task[d].pc = "fin_delete"
    /\ ~task[d].must_cancel
    /\ kernels' = kernels \ {d}
    /\ task' = [task EXCEPT ![d].pc = "fin_close"]
    /\ fx' = [fx EXCEPT ![d].close = @ + 1]
    /\ ret' = NoRet
    /\ UNCHANGED <<_active_daemons, info, _active_sessions, starting, events,
                   stop_call, cleanup, received,
                   calls, _user_bindings,
                   http, client, transport>>

\* faulty variant: the entry is popped and its session stays registered
run_session_closed_keeps_session(d) ==
    /\ task[d].pc = "fin_close"
    /\ ~task[d].must_cancel
    /\ fx' = [fx EXCEPT ![d].pop = @ + 1]
    /\ _active_daemons' = _active_daemons \ {d}
    /\ task' = [task EXCEPT ![d].pc = "done"]
    /\ http' = [http EXCEPT !.closed = @ + 1]
    /\ ret' = NoRet
    /\ UNCHANGED <<info, _active_sessions, starting, events, kernels, stop_call,
                   cleanup, received, calls, _user_bindings, client, transport>>

\* session.close() returned: unregister the MCP session, pop the entry
run_session_closed(d) ==
    /\ task[d].pc = "fin_close"
    /\ ~task[d].must_cancel
    /\ IF task[d].info /\ info[d].code_mode_session_id # None
       THEN /\ _active_sessions' =
                  Unregistered(_active_sessions, info[d].code_mode_session_id)
            /\ fx' = [fx EXCEPT ![d].unregister = @ + 1, ![d].pop = @ + 1]
       ELSE /\ fx' = [fx EXCEPT ![d].pop = @ + 1]
            /\ UNCHANGED _active_sessions
    /\ _active_daemons' = _active_daemons \ {d}
    /\ task' = [task EXCEPT ![d].pc = "done"]
    /\ http' = [http EXCEPT !.closed = @ + 1]
    /\ ret' = NoRet
    /\ UNCHANGED <<info, starting, events, kernels, stop_call, cleanup, received,
                   calls, _user_bindings,
                   client, transport>>

----------------------------------------------------------------------------
(* Environment: the clock *)

\* time.time() passes the runner's deadline
deadline_passes(d) ==
    /\ task[d].pc \in {"recv", "emit_output"}
    /\ ~task[d].expired
    /\ task' = [task EXCEPT ![d].expired = TRUE]
    /\ ret' = NoRet
    /\ UNCHANGED <<_active_daemons, info, _active_sessions, starting, events, fx,
                   kernels, stop_call, cleanup, received,
                   calls, _user_bindings,
                   http, client, transport>>

----------------------------------------------------------------------------
(* Specifications *)

Next ==
    \/ \E a \in StartArgs : Started < MaxDaemons /\ start_daemon_call(a[1], a[2], a[3])
    \/ \E a \in StartArgs : start_daemon_created(a)
    \/ \E a \in StartArgs :
          http.opened - Started < MaxFailedStarts /\ start_daemon_failed(a)
    \/ \E d \in Created : stop_daemon(d)
    \/ \E d \in Created : stop_daemon_resume(d)
    \/ \E u \in Users : cleanup_user_daemons(u)
    \/ \E u \in Users : cleanup_resume(u)
    \/ \E s \in Sessions, u \in Users : register_code_mode_session(s, u, NoTools)
    \/ \E s \in Sessions : unregister_code_mode_session(s)
    \/ \E d \in Created : run_start(d)
    \/ \E d \in Created : run_connected(d)
    \/ \E d \in Created : run_emitted(d)
    \/ \E d \in Created : \E f \in Frames(d) : received < MaxFrames /\ run_recv(d, f)
    \/ \E d \in Created : run_recv_timeout(d)
    \/ \E d \in Created : run_emitted_traceback(d)
    \/ \E d \in Created : run_emitted_timeout(d)
    \/ \E d \in Created : run_ws_closed(d)
    \/ \E d \in Created : run_raises(d)
    \/ \E d \in Created : \E text \in MalformedTexts :
          received < MaxFrames /\ run_recv_malformed(d, text)
    \/ \E d \in Created : run_exc_closed(d)
    \/ \E d \in Created : run_cancelled(d)
    \/ \E d \in Created : run_kernel_deleted(d)
    \/ \E d \in Created : run_session_closed(d)
    \/ \E d \in Created : deadline_passes(d)

Spec == Init /\ [][Next]_vars

\* daemons whose status stop_daemon has set
StoppedSoFar == Cardinality({d \in Created : info[d].status = "stopped"})

\* The supervisor under load: several users' daemons with a kernel that stays
\* silent and a connection that holds, so that a daemon ends when it is stopped.
\* The bound is on the calls that get past the quota check.
NextQuota ==
    \/ \E u \in Users :
          /\ Started < MaxQuotaDaemons \/ _get_user_daemon_count(u) >= MAX_DAEMONS_PER_USER
          /\ start_daemon_call(u, None, 3600)
    \/ \E a \in StartArgs : start_daemon_created(a)
    \/ \E d \in _active_daemons :
          ShouldStop(d) /\ StoppedSoFar < MaxStops /\ stop_daemon(d)
    \/ \E d \in Created : stop_daemon_resume(d)
    \/ \E u \in Users :
          /\ ToStop(u) # <<>>
          /\ StoppedSoFar + Len(ToStop(u)) <= MaxStops
          /\ cleanup_user_daemons(u)
    \/ \E u \in Users : cleanup_resume(u)
    \/ \E d \in Created : run_start(d)
    \/ \E d \in Created : run_connected(d)
    \/ \E d \in Created : run_emitted(d)
    \/ \E d \in Created : run_cancelled(d)
    \/ \E d \in Created : run_kernel_deleted(d)
    \/ \E d \in Created : run_session_closed(d)

SpecQuota == Init /\ [][NextQuota]_vars

\* Daemons of one user that declare the same registered session.
NextShare ==
    \/ \E s \in Sessions \cup {None} :
          Started < MaxShareDaemons /\ start_daemon_call("u1", s, 3600)
    \/ \E a \in StartArgs : start_daemon_created(a)
    \/ \E d \in Created : stop_daemon(d)
    \/ \E d \in Created : stop_daemon_resume(d)
    \/ \E s \in Sessions : register_code_mode_session(s, "u1", NoTools)
    \/ \E s \in Sessions : unregister_code_mode_session(s)
    \/ \E d \in Created : run_start(d)
    \/ \E d \in Created : run_connected(d)
    \/ \E d \in Created : run_emitted(d)
    \/ \E d \in Created : run_raises(d)
    \/ \E d \in Created : run_cancelled(d)
    \/ \E d \in Created : run_kernel_deleted(d)
    \/ \E d \in Created : run_session_closed(d)

SpecShare == Init /\ [][NextShare]_vars

\* A user's session ends while daemons of several users run or fail on their
\* own: cleanup_user_daemons against runners whose connection may break.
NextCleanup ==
    \/ \E u \in Users :
          Started < MaxCleanupDaemons /\ start_daemon_call(u, None, 3600)
    \/ \E a \in StartArgs : start_daemon_created(a)
    \/ \E u \in Users : ToStop(u) # <<>> /\ cleanup_user_daemons(u)
    \/ \E u \in Users : cleanup_resume(u)
    \/ \E d \in Created : run_start(d)
    \/ \E d \in Created : run_connected(d)
    \/ \E d \in Created : run_emitted(d)
    \/ \E d \in Created : run_raises(d)
    \/ \E d \in Created : run_cancelled(d)
    \/ \E d \in Created : run_kernel_deleted(d)
    \/ \E d \in Created : run_session_closed(d)

SpecCleanup == Init /\ [][NextCleanup]_vars

\* One daemon with any of the event sinks: frames, failures, the deadline and
\* stop_daemon.
NextSink ==
    \/ \E a \in StartArgs : Started < MaxDaemons /\ start_daemon_call(a[1], a[2], a[3])
    \/ \E a \in StartArgs, sink \in Sinks : start_daemon_created_with(a, sink)
    \/ \E d \in Created : stop_daemon(d)
    \/ \E d \in Created : stop_daemon_resume(d)
    \/ \E d \in Created : run_start(d)
    \/ \E d \in Created : run_connected(d)
    \/ \E d \in Created : run_emitted(d)
    \/ \E d \in Created : \E f \in Frames(d) : received < MaxFrames /\ run_recv(d, f)
    \/ \E d \in Created : run_emitted_traceback(d)
    \/ \E d \in Created : run_emitted_timeout(d)
    \/ \E d \in Created : run_ws_closed(d)
    \/ \E d \in Created : run_raises(d)
    \/ \E d \in Created : run_cancelled(d)
    \/ \E d \in Created : run_kernel_deleted(d)
    \/ \E d \in Created : run_session_closed(d)
    \/ \E d \in Created : deadline_passes(d)

SpecSink == Init /\ [][NextSink]_vars

\* Starts that succeed and starts that fail at the gateway, next to daemons of
\* the same users that run, fail or are stopped.
NextStart ==
    \/ \E a \in StartArgs :
          /\ a[3] = 3600
          /\ Started < MaxStartDaemons
          /\ http.opened < MaxStartDaemons + MaxFailedStarts
          /\ start_daemon_call(a[1], a[2], a[3])
    \/ \E a \in StartArgs : start_daemon_created(a)
    \/ \E a \in StartArgs :
          http.opened - Started < MaxFailedStarts /\ start_daemon_failed(a)
    \/ \E d \in Created : stop_daemon(d)
    \/ \E d \in Created : stop_daemon_resume(d)
    \/ \E d \in Created : run_start(d)
    \/ \E d \in Created : run_connected(d)
    \/ \E d \in Created : run_emitted(d)
    \/ \E d \in Created : run_raises(d)
    \/ \E d \in Created : run_cancelled(d)
    \/ \E d \in Created : run_kernel_deleted(d)
    \/ \E d \in Created : run_session_closed(d)

SpecStart == Init /\ [][NextStart]_vars

\* A step of runner d that needs nothing from the kernel: the event loop
\* resumes the task once what it awaits is done, and asyncio.wait_for ends the
\* wait for a frame after min(remaining, 30.0) seconds at the latest.
run_step(d) ==
    /\ d \in Created
    /\ \/ run_start(d)
       \/ run_connected(d)
       \/ run_emitted(d)
       \/ run_recv_timeout(d)
       \/ run_emitted_traceback(d)
       \/ run_emitted_timeout(d)
       \/ run_ws_closed(d)
       \/ run_kernel_deleted(d)
       \/ run_session_closed(d)

\* One daemon left alone by its user, with a kernel that sends what it likes or
\* nothing at all, on a connection that holds.
NextLoop ==
    \/ \E a \in StartArgs : Started < MaxDaemons /\ start_daemon_call(a[1], a[2], a[3])
    \/ \E a \in StartArgs : start_daemon_created(a)
    \/ \E d \in Created : \E f \in Frames(d) : received < MaxFrames /\ run_recv(d, f)
    \/ \E d \in Created : run_step(d)
    \/ \E d \in Created : deadline_passes(d)

\* the task is scheduled fairly and the clock goes on
SpecLoop ==
    /\ Init
    /\ [][NextLoop]_vars
    /\ \A d \in 1..MaxDaemons : WF_vars(run_step(d))
    /\ \A d \in 1..MaxDaemons : WF_vars(d \in Created /\ deadline_passes(d))

----------------------------------------------------------------------------
(* list_daemons: a read of the daemon table *)

Chats == {"c1", "c2"}
Statuses == {"running", "stopped", "error", "completed"}

\* the dict list_daemons builds for one entry (ids, user, chat and status)
ListEntry(d) ==
    [daemon_id |-> d, user_id |-> info[d].user_id, chat_id |-> info[d].chat_id,
     status |-> info[d].status]

\* the loop of list_daemons over _active_daemons.values(), from the ids in ds
RECURSIVE ListLoop(_, _, _)
ListLoop(ds, user_id, chat_id) ==
    IF ds = <<>> THEN <<>>
    ELSE LET d == Head(ds)
             rest == ListLoop(Tail(ds), user_id, chat_id)
         IN IF Truthy(user_id) /\ info[d].user_id # user_id THEN rest
            ELSE IF Truthy(chat_id) /\ info[d].chat_id # chat_id THEN rest
            ELSE <<ListEntry(d)>> \o rest

ListReturned(user_id, chat_id, out) ==
    [op |-> "list_daemons", user_id |-> user_id, chat_id |-> chat_id, out |-> out]

list_daemons(user_id, chat_id) ==
    /\ ret' = ListReturned(user_id, chat_id,
                           ListLoop(InOrder(_active_daemons), user_id, chat_id))
    /\ UNCHANGED <<_active_daemons, info, _active_sessions, starting, task, events,
                   fx, kernels, stop_call, cleanup, received,
                   calls, _user_bindings,
                   http, client, transport>>

\* A table of up to MaxListed entries of any user, chat and status; here the
\* DaemonInfo records carry their chat_id, which only list_daemons reads.
InitList ==
    /\ \E n \in 0..MaxListed :
          /\ info \in [1..n -> [user_id : Users, chat_id : Chats, status : Statuses,
                                code_mode_session_id : {None}]]
          /\ _active_daemons = 1..n
          /\ task = [d \in 1..n |-> [NewTask(3600) EXCEPT !.pc = "recv", !.info = TRUE]]
          /\ events = [d \in 1..n |-> <<StatusEvent("running", "")>>]
          /\ fx = [d \in 1..n |-> [NoFx EXCEPT !.requests = 1]]
          /\ kernels = 1..n
          /\ stop_call = [d \in 1..n |-> None]
    /\ _active_sessions = <<>>
    /\ starting = [a \in StartArgs |-> 0]
    /\ cleanup = [u \in Users |-> [pc |-> "idle", to_stop |-> <<>>, i |-> 0,
                                    at |-> None, known |-> 0]]
    /\ received = 0
    /\ ret = NoRet
    /\ calls = <<>>
    /\ _user_bindings = <<>>
    /\ http = [opened |-> 0, closed |-> 0]
    /\ client = NewClient
    /\ transport = [sessions |-> 0, closed |-> {}, attempts |-> 0, last |-> <<>>,
                    connects |-> 0]

\* the arguments of a call: an id, the empty string, or not given
NextList ==
    \E user_id \in Users \cup {"", None}, chat_id \in Chats \cup {"", None} :
        list_daemons(user_id, chat_id)

SpecList == InitList /\ [][NextList]_vars

\* The tool proxy: sessions come and go with their catalogs, the kernel calls
\* tools by name (t3 is in no catalog).
CallSessions == Sessions \cup {"s2"}

NextCall ==
    \/ \E s \in CallSessions, u \in Users, c \in Catalogs :
          register_code_mode_session(s, u, c)
    \/ \E s \in CallSessions : unregister_code_mode_session(s)
    \/ \E s \in CallSessions, t \in ToolNames \cup {"t3"} : post_call(s, t)
    \/ \E i \in DOMAIN calls : call_mcp_tool(i)
    \/ \E i \in DOMAIN calls, o \in ToolOutcomes : call_mcp_tool_returns(i, o)
    \/ \E i \in DOMAIN calls : _call_mcp_tool(i)

SpecCall == Init /\ [][NextCall]_vars

----------------------------------------------------------------------------
(* Per-user binding store (routers/code_mode.py:80-94) *)

\* binding texts: generate_mcp_bindings gives "" for a catalog without mcp tools
BindingTexts == {"", "class MCPTools"}

\* session ids stored with a text: registered ones, one never registered, ""
StoredSessions == CallSessions \cup {""}

store_user_bindings(user_id, bindings, session_id) ==
    /\ _user_bindings' =
          [u \in DOMAIN _user_bindings \cup {user_id} |->
              IF u = user_id THEN [bindings |-> bindings, session_id |-> session_id]
              ELSE _user_bindings[u]]
    /\ ret' = NoRet
    /\ UNCHANGED <<_active_daemons, info, _active_sessions, starting, task, events,
                   fx, kernels, stop_call, cleanup, received, calls,
                   http, client, transport>>

\* faulty variant: the text is returned whatever the registry holds
StoredTextAlways(stored, sessions, user_id) ==
    IF user_id \notin DOMAIN stored THEN "" ELSE stored[user_id].bindings

\* the value get_user_bindings returns
StoredText(stored, sessions, user_id) ==
    IF user_id \notin DOMAIN stored THEN ""
    ELSE LET session_id == stored[user_id].session_id
         IN IF Truthy(session_id) /\ session_id \notin DOMAIN sessions THEN ""
            ELSE stored[user_id].bindings

BindingsReturned(user_id, out) ==
    [op |-> "get_user_bindings", user_id |-> user_id, out |-> out]

get_user_bindings(user_id) ==
    /\ ret' = BindingsReturned(user_id,
                               StoredText(_user_bindings, _active_sessions, user_id))
    /\ UNCHANGED <<_active_daemons, info, _active_sessions, starting, task, events,
                   fx, kernels, stop_call, cleanup, received, calls, _user_bindings,
                   http, client, transport>>

\* The store next to the registry and to a daemon that declares a session and
\* unregisters it when it ends.
NextBindings ==
    \/ \E u \in Users, b \in BindingTexts, s \in StoredSessions :
          store_user_bindings(u, b, s)
    \/ \E u \in Users : get_user_bindings(u)
    \/ \E s \in Sessions, u \in Users : register_code_mode_session(s, u, NoTools)
    \/ \E s \in Sessions : unregister_code_mode_session(s)
    \/ \E s \in Sessions : Started < MaxDaemons /\ start_daemon_call("u1", s, 3600)
    \/ \E a \in StartArgs : start_daemon_created(a)
    \/ \E d \in Created : run_start(d)
    \/ \E d \in Created : run_connected(d)
    \/ \E d \in Created : run_emitted(d)
    \/ \E d \in Created : run_raises(d)
    \/ \E d \in Created : run_kernel_deleted(d)
    \/ \E d \in Created : run_session_closed(d)

SpecBindings == Init /\ [][NextBindings]_vars

----------------------------------------------------------------------------
(* The generated unwrapper (utils/code_mode.py:154-183) *)

\* one turn of the loop over the items: what is appended to `texts`
UnwrapItem(item) ==
    IF item.kind = "dict" /\ DictGet(item.val, <<"t", "y", "p", "e">>, PyNone)
                                = PyStr(<<"t", "e", "x", "t">>)
    THEN LET raw == DictGet(item.val, <<"t", "e", "x", "t">>, PyStr(<<>>))
             parsed == json_loads(raw)
         IN IF parsed.ok THEN parsed.val ELSE raw
    ELSE item

RECURSIVE UnwrapItems(_)
UnwrapItems(items) ==
    IF items = <<>> THEN <<>>
    ELSE <<UnwrapItem(Head(items))>> \o UnwrapItems(Tail(items))

\* faulty variant: a mapped list of one element is returned as that list
UnwrapKeepsList(result) ==
    IF result.kind # "list" THEN result ELSE PyList(UnwrapItems(result.val))

_unwrap_mcp_content(result) ==
    IF result.kind # "list" THEN result
    ELSE LET texts == UnwrapItems(result.val)
         IN IF Len(texts) = 1 THEN texts[1] ELSE PyList(texts)

\* Inputs: values a tool may serialise, texts that are not JSON, and the items
\* of a content envelope.
MaxItems == 2

TypeKey == <<"t", "y", "p", "e">>
TextKey == <<"t", "e", "x", "t">>

JsonValues ==
    { PyNone, PyBool(TRUE), PyBool(FALSE), PyInt(0), PyInt(42), PyStr(<<>>),
      PyStr(<<"o", "k">>), PyList(<<>>), PyList(<<PyInt(1), PyInt(2)>>),
      PyDict(<<>>), PyDict(<<<<<<"k">>, PyStr(<<"v">>)>>>>),
      PyList(<<PyDict(<<<<<<"a">>, PyList(<<PyNone>>)>>, <<<<"b">>, PyInt(7)>>>>)>>) }

InvalidTexts ==
    { <<>>, <<"h", "i">>, <<"[", "1", ",", "]">>, <<"{", "\"", "k", "\"", "}">>,
      <<"0", "1">>, <<"1", " ", "2">>, <<"\"", "o", "k">>, <<"[", "1">> }

TextItem(raw) == PyDict(<<<<TypeKey, PyStr(TextKey)>>, <<TextKey, raw>>>>)

Items ==
    { TextItem(PyStr(json_dumps(v))) : v \in JsonValues }
    \cup { TextItem(PyStr(t)) : t \in InvalidTexts }
    \cup { TextItem(PyStr(<<" ", "[", "1", ",", "2", "]", " ">>)),
           TextItem(PyNone),
           PyDict(<<<<TypeKey, PyStr(TextKey)>>>>),
           PyDict(<<<<TypeKey, PyStr(<<"i", "m", "a", "g", "e">>)>>,
                    <<<<"d", "a", "t", "a">>, PyStr(<<"A", "A">>)>>>>),
           PyDict(<<>>),
           PyStr(<<"[", "1", "]">>),
           PyInt(5) }

Results ==
    { PyNone, PyInt(3), PyStr(<<"[", "1", "]">>),
      PyDict(<<<<TypeKey, PyStr(TextKey)>>, <<TextKey, PyStr(<<"1">>)>>>>) }
    \cup { PyList(items) : items \in UNION { [1..n -> Items] : n \in 0..MaxItems } }

Unwrapped(result, out) ==
    [op |-> "_unwrap_mcp_content", arg |-> result, out |-> out]

run_unwrap(result) ==
    /\ ret' = Unwrapped(result, _unwrap_mcp_content(result))
    /\ UNCHANGED <<_active_daemons, info, _active_sessions, starting, task, events,
                   fx, kernels, stop_call, cleanup, received, calls, _user_bindings,
                   http, client, transport>>

NextUnwrap == \E result \in Results : run_unwrap(result)

SpecUnwrap == Init /\ [][NextUnwrap]_vars

----------------------------------------------------------------------------
(* The binding generator (utils/code_mode.py:47-269) *)

\* Names are sequences of characters.  What Python accepts as a name:
IsIdentifier(name) ==
    LET Lower ==
            {"a", "b", "c", "d", "e", "f", "g", "h", "i", "j", "k", "l", "m", "n",
             "o", "p", "q", "r", "s", "t", "u", "v", "w", "x", "y", "z"}
        IdStart == Lower \cup {"_"}
        IdPart == IdStart \cup DOMAIN DigitVal
        Keywords == { <<"c", "l", "a", "s", "s">>, <<"f", "r", "o", "m">>,
                      <<"i", "n">>, <<"i", "s">>, <<"i", "f">>, <<"o", "r">> }
    IN /\ name # <<>>
       /\ name[1] \in IdStart
       /\ \A i \in DOMAIN name : name[i] \in IdPart
       /\ name \notin Keywords

\* name.replace(old, new) for one-character old and new
Replace(name, old, new) ==
    [i \in DOMAIN name |-> IF name[i] = old THEN new ELSE name[i]]

\* full_name.split("_", 1): the server id and the tool name
FirstUnderscore(name) ==
    IF \E i \in DOMAIN name : name[i] = "_"
    THEN CHOOSE i \in DOMAIN name :
            name[i] = "_" /\ \A j \in 1..(i - 1) : name[j] # "_"
    ELSE 0

ServerOf(full_name) ==
    IF FirstUnderscore(full_name) = 0 THEN <<"d", "e", "f", "a", "u", "l", "t">>
    ELSE SubSeq(full_name, 1, FirstUnderscore(full_name) - 1)

ToolOf(full_name) ==
    IF FirstUnderscore(full_name) = 0 THEN full_name
    ELSE SubSeq(full_name, FirstUnderscore(full_name) + 1, Len(full_name))

MethodName(tool_name) == Replace(Replace(tool_name, "-", "_"), ".", "_")

\* generate_function_signature: one parameter per property, in the order of
\* the schema's properties, with the default None unless it is required
RECURSIVE SignatureParams(_)
SignatureParams(properties) ==
    IF properties = <<>> THEN <<>>
    ELSE <<[name |-> Head(properties).name, default |-> ~Head(properties).required]>>
         \o SignatureParams(Tail(properties))

\* the items of the dict literal `_kwargs`: "<param_name>": <safe_param>
RECURSIVE KwargsItems(_)
KwargsItems(properties) ==
    IF properties = <<>> THEN <<>>
    ELSE <<[key |-> Head(properties).name,
            var |-> Replace(Head(properties).name, "-", "_")]>>
         \o KwargsItems(Tail(properties))

\* the method generated for one tool
Method(tool) ==
    [method_name |-> MethodName(ToolOf(tool.name)),
     params |-> SignatureParams(tool.properties),
     kwargs |-> KwargsItems(tool.properties),
     full_name |-> tool.name]

\* the keys of `servers`, in insertion order
RECURSIVE ServersOf(_, _)
ServersOf(tools, seen) ==
    IF tools = <<>> THEN seen
    ELSE LET s == ServerOf(Head(tools).name)
         IN ServersOf(Tail(tools),
                      IF \E i \in DOMAIN seen : seen[i] = s THEN seen
                      ELSE Append(seen, s))

RECURSIVE MethodsOf(_, _)
MethodsOf(tools, server) ==
    IF tools = <<>> THEN <<>>
    ELSE (IF ServerOf(Head(tools).name) = server THEN <<Method(Head(tools))>>
          ELSE <<>>) \o MethodsOf(Tail(tools), server)

RECURSIVE MethodsByServer(_, _)
MethodsByServer(tools, servers) ==
    IF servers = <<>> THEN <<>>
    ELSE MethodsOf(tools, Head(servers)) \o MethodsByServer(tools, Tail(servers))

RECURSIVE McpOnly(_)
McpOnly(catalog) ==
    IF catalog = <<>> THEN <<>>
    ELSE (IF Head(catalog).type = "mcp" THEN <<Head(catalog)>> ELSE <<>>)
         \o McpOnly(Tail(catalog))

\* The text generate_mcp_bindings returns, by its structure: the empty text, or
\* the fixed helpers followed by class MCPTools with these method definitions
\* in this order.
generate_mcp_bindings(catalog) ==
    LET tools == McpOnly(catalog)
    IN [empty |-> tools = <<>>,
        methods |-> MethodsByServer(tools, ServersOf(tools, <<>>))]

\* Python's grammar on that text: `def <name>(<params>):` needs a name, names
\* for its parameters, every one once, and no parameter without default after
\* one with a default; the items of the dict literal need expressions.
ValidDef(m) ==
    /\ IsIdentifier(m.method_name)
    /\ \A i \in DOMAIN m.params : IsIdentifier(m.params[i].name)
    /\ \A i, j \in DOMAIN m.params :
          m.params[i].name = m.params[j].name => i = j
    /\ \A i, j \in DOMAIN m.params :
          (i < j /\ m.params[i].default) => m.params[j].default
    /\ \A i \in DOMAIN m.kwargs : IsIdentifier(m.kwargs[i].var)

ValidPython(program) == \A i \in DOMAIN program.methods : ValidDef(program.methods[i])

\* Executing the class body binds each method name to its last definition.
MethodNames(program) == {program.methods[i].method_name : i \in DOMAIN program.methods}

Bound(program, name) ==
    LET last == CHOOSE i \in DOMAIN program.methods :
                    /\ program.methods[i].method_name = name
                    /\ \A j \in DOMAIN program.methods :
                          program.methods[j].method_name = name => j <= i
    IN program.methods[last]

\* the body of a generated method, called with values[i] bound to its i-th
\* parameter (None: left at its default): the dict literal, the filter
\* `v is not None`, and _call_mcp_tool(full_name, **_kwargs), which raises
\* TypeError when a key is the name of its own first parameter, tool_name
ValueOf(m, values, var) ==
    values[CHOOSE i \in DOMAIN m.params : m.params[i].name = var]

RECURSIVE Forwarded(_, _, _)
Forwarded(m, values, items) ==
    IF items = <<>> THEN <<>>
    ELSE LET v == ValueOf(m, values, Head(items).var)
         IN (IF v # PyNone THEN <<<<Head(items).key, v>>>> ELSE <<>>)
            \o Forwarded(m, values, Tail(items))

ToolNameParam == <<"t", "o", "o", "l", "_", "n", "a", "m", "e">>

MethodCalled(m, values) ==
    LET kwargs == Forwarded(m, values, m.kwargs)
    IN IF \E i \in DOMAIN kwargs : kwargs[i][1] = ToolNameParam
       THEN [op |-> "mcp_tools method", method |-> m, values |-> values,
             raised |-> "TypeError", tool_name |-> <<>>, arguments |-> <<>>]
       ELSE [op |-> "mcp_tools method", method |-> m, values |-> values,
             raised |-> None, tool_name |-> m.full_name, arguments |-> kwargs]

\* Inputs: tools of a catalog (mcp_tools.items() in order) and argument values.
MaxTools == 2

ToolSpecs ==
    LET PropQ == [name |-> <<"q">>, required |-> TRUE]
        PropLimit == [name |-> <<"l", "i", "m", "i", "t">>, required |-> FALSE]
        PropMaxResults ==
            [name |-> <<"m", "a", "x", "-", "r", "e", "s", "u", "l", "t", "s">>,
             required |-> FALSE]
        PropToolName == [name |-> ToolNameParam, required |-> TRUE]
    IN
    { [type |-> "mcp", name |-> <<"s", "r", "v", "_", "g", "e", "t", "-", "i", "t", "e", "m">>,
       properties |-> <<PropQ, PropLimit>>],
      [type |-> "mcp", name |-> <<"s", "r", "v", "_", "g", "e", "t", ".", "i", "t", "e", "m">>,
       properties |-> <<>>],
      [type |-> "mcp", name |-> <<"s", "r", "v", "_", "l", "i", "s", "t">>,
       properties |-> <<PropQ, PropLimit>>],
      [type |-> "mcp", name |-> <<"w", "e", "b", "_", "l", "i", "s", "t">>,
       properties |-> <<PropLimit>>],
      [type |-> "mcp", name |-> <<"p", "l", "a", "i", "n">>,
       properties |-> <<PropLimit, PropQ>>],
      [type |-> "mcp", name |-> <<"s", "r", "v", "_", "f", "i", "n", "d">>,
       properties |-> <<PropMaxResults>>],
      [type |-> "mcp", name |-> <<"s", "r", "v", "_", "h", "e", "l", "p">>,
       properties |-> <<PropToolName, PropLimit>>],
      [type |-> "function", name |-> <<"s", "r", "v", "_", "c", "a", "l", "c">>,
       properties |-> <<PropQ>>] }

ToolCatalogs ==
    { c \in UNION { [1..n -> ToolSpecs] : n \in 0..MaxTools } :
        \A i, j \in DOMAIN c : c[i] = c[j] => i = j }

ArgValues == {PyNone, PyBool(FALSE), PyInt(0), PyStr(<<>>), PyStr(<<"x">>)}

Generated(catalog, program) ==
    [op |-> "generate_mcp_bindings", catalog |-> catalog, program |-> program]

run_generate(catalog) ==
    /\ ret' = Generated(catalog, generate_mcp_bindings(catalog))
    /\ UNCHANGED <<_active_daemons, info, _active_sessions, starting, task, events,
                   fx, kernels, stop_call, cleanup, received, calls, _user_bindings,
                   http, client, transport>>

\* user code calls mcp_tools.<name>(...) after the generated text was executed
run_method(catalog, name, values) ==
    /\ ValidPython(generate_mcp_bindings(catalog))
    /\ name \in MethodNames(generate_mcp_bindings(catalog))
    /\ DOMAIN values = DOMAIN Bound(generate_mcp_bindings(catalog), name).params
    /\ ret' = MethodCalled(Bound(generate_mcp_bindings(catalog), name), values)
    /\ UNCHANGED <<_active_daemons, info, _active_sessions, starting, task, events,
                   fx, kernels, stop_call, cleanup, received, calls, _user_bindings,
                   http, client, transport>>

NextGenerate ==
    \/ \E catalog \in ToolCatalogs : run_generate(catalog)
    \/ \E catalog \in ToolCatalogs :
          \E name \in MethodNames(generate_mcp_bindings(catalog)) :
             \E values \in UNION { [1..n -> ArgValues] : n \in 0..2 } :
                run_method(catalog, name, values)

SpecGenerate == Init /\ [][NextGenerate]_vars

----------------------------------------------------------------------------
(* MCP client (utils/mcp/client.py): one MCPClient object *)

MaxConnects == 3

NotConnected == "MCP client is not connected."

\* MCPClient.connect on the fields c and the library state tr. outcome says how
\* far it gets: "transport_fails" (entering streamablehttp_client raises),
\* "initialize_fails" (session.initialize() raises or runs into fail_after(10))
\* or "ok". A ClientSession is closed when the exit stack that holds it is left
\* or closed; `except` calls disconnect() only if self.exit_stack is set.
Connect(c, tr, url, headers, outcome) ==
    LET saved == [c EXCEPT !._url = url, !._headers = headers]
        tried == [tr EXCEPT !.attempts = @ + 1, !.last = <<url, headers>>]
        n == tr.sessions + 1
        s == ToString(n)
        \* disconnect(), lines 134-143
        dropped(x) == [x EXCEPT !.exit_stack = None, !.session = None]
        closing(t, x) == [t EXCEPT !.closed = @ \cup {x.exit_stack}]
    IN CASE outcome = "transport_fails" ->
              IF c.exit_stack # None
              THEN [client |-> dropped(saved), transport |-> closing(tried, c),
                    raised |-> "ConnectError"]
              ELSE [client |-> saved, transport |-> tried, raised |-> "ConnectError"]
         [] outcome = "initialize_fails" ->
              LET entered == [saved EXCEPT !.session = s]
                  made == [tried EXCEPT !.sessions = n, !.closed = @ \cup {s}]
              IN IF c.exit_stack # None
                 THEN [client |-> dropped(entered), transport |-> closing(made, c),
                       raised |-> "TimeoutError"]
                 ELSE [client |-> entered, transport |-> made, raised |-> "TimeoutError"]
         [] OTHER ->
              [client |-> [saved EXCEPT !.session = s, !.exit_stack = s],
               transport |-> [tried EXCEPT !.sessions = n, !.connects = @ + 1],
               raised |-> None]

\* `if not self.session and self._url: await self.connect(self._url, self._headers)`
_ensure_connected(c, tr, outcome) ==
    IF c.session = None /\ Truthy(c._url)
    THEN Connect(c, tr, c._url, c._headers, outcome)
    ELSE [client |-> c, transport |-> tr, raised |-> None]

ClientRet(op, raised, out) == [op |-> op, raised |-> raised, out |-> out]

\* list_tool_specs and call_tool: _ensure_connected, the check of self.session,
\* then the request on the session, which a closed session cannot serve
SessionCall(op, outcome, answer) ==
    LET e == _ensure_connected(client, transport, outcome)
    IN /\ client' = e.client
       /\ transport' = e.transport
       /\ ret' = IF e.raised # None THEN ClientRet(op, e.raised, None)
                 ELSE IF e.client.session = None THEN ClientRet(op, NotConnected, None)
                 ELSE IF e.client.session \in e.transport.closed
                 THEN ClientRet(op, "ClosedResourceError", None)
                 ELSE IF answer.kind = "raise" THEN ClientRet(op, answer.value, None)
                 ELSE ClientRet(op, None, answer.value)
       /\ UNCHANGED <<_active_daemons, info, _active_sessions, starting, task, events,
                      fx, kernels, stop_call, cleanup, received, calls,
                      _user_bindings, http>>

connect(url, headers, outcome) ==
    LET r == Connect(client, transport, url, headers, outcome)
    IN /\ client' = r.client
       /\ transport' = r.transport
       /\ ret' = ClientRet("connect", r.raised, None)
       /\ UNCHANGED <<_active_daemons, info, _active_sessions, starting, task, events,
                      fx, kernels, stop_call, cleanup, received, calls,
                      _user_bindings, http>>

disconnect ==
    /\ IF client.exit_stack # None
       THEN /\ client' = [client EXCEPT !.exit_stack = None, !.session = None]
            /\ transport' = [transport EXCEPT !.closed = @ \cup {client.exit_stack}]
       ELSE UNCHANGED <<client, transport>>
    /\ ret' = ClientRet("disconnect", None, None)
    /\ UNCHANGED <<_active_daemons, info, _active_sessions, starting, task, events,
                   fx, kernels, stop_call, cleanup, received, calls,
                   _user_bindings, http>>

list_tool_specs(outcome) ==
    SessionCall("list_tool_specs", outcome, [kind |-> "return", value |-> "tool_specs"])

\* the server's answer: content, a result with isError, or nothing
call_tool(outcome, answer) == SessionCall("call_tool", outcome, answer)

NextClient ==
    \/ \E url \in {"http://a", "http://b"}, headers \in {None, "auth"},
          outcome \in {"ok", "transport_fails", "initialize_fails"} :
          transport.attempts < MaxConnects /\ connect(url, headers, outcome)
    \/ disconnect
    \/ \E outcome \in {"ok", "transport_fails", "initialize_fails"} :
          /\ client.session # None \/ transport.attempts < MaxConnects
          /\ list_tool_specs(outcome)
    \/ \E outcome \in {"ok", "transport_fails", "initialize_fails"},
          answer \in { [kind |-> "return", value |-> "content"],
                       [kind |-> "raise", value |-> "MCP tool error: boom"],
                       [kind |-> "raise",
                        value |-> "No result returned from MCP tool call."] } :
          /\ client.session # None \/ transport.attempts < MaxConnects
          /\ call_tool(outcome, answer)

SpecClient == Init /\ [][NextClient]_vars

----------------------------------------------------------------------------
(* Properties *)

RunningOf(u) ==
    {d \in _active_daemons : info[d].user_id = u /\ info[d].status = "running"}

RECURSIVE Count(_, _)
Count(seq, e) ==
    IF seq = <<>> THEN 0
    ELSE (IF Head(seq) = e THEN 1 ELSE 0) + Count(Tail(seq), e)

StoppedByUser == StatusEvent("stopped", "Stopped by user")
ScriptError == StatusEvent("error", "Script raised an error")
TimeoutOutput(d) == OutputEvent("stderr", TimeoutText(task[d].max_runtime))
TracebackOutput ==
    OutputEvent("stderr", "Traceback:\nZeroDivisionError: division by zero")

\* C1: the entries of one user with status "running" never number more than
\* MAX_DAEMONS_PER_USER, also when start_daemon calls overlap in kernel creation.
C1_RunningWithinCap ==
    \A u \in Users : Cardinality(RunningOf(u)) <= MAX_DAEMONS_PER_USER

\* C2: once the runner task of a daemon has finished, its cleanup has run once:
\* one DELETE of the kernel was attempted and the entry has left the table.
C2_CleanupOnceAndRemoved ==
    \A d \in Created :
        TaskDone(task[d]) =>
            /\ fx[d].delete = 1
            /\ fx[d].pop = 1
            /\ d \notin _active_daemons

\* the stop_daemon call that waits for d's runner cancelled it inside `finally`
CancelledInCleanup(d) ==
    \/ stop_call[d] \in InFinally
    \/ \E u \in Users :
          /\ cleanup[u].pc = "await"
          /\ cleanup[u].to_stop[cleanup[u].i] = d
          /\ cleanup[u].at \in InFinally

\* C3: a runner cancelled while it executes its cleanup still completes it: when
\* its task has finished, the DELETE, the close of the HTTP session, the
\* unregistration of its session and the removal of its entry each happened once.
C3_CleanupSurvivesCancel ==
    \A d \in Created :
        (CancelledInCleanup(d) /\ TaskDone(task[d])) =>
            /\ fx[d].delete = 1
            /\ fx[d].close = 1
            /\ info[d].code_mode_session_id # None => fx[d].unregister = 1
            /\ fx[d].pop = 1
            /\ d \notin _active_daemons

\* C4: when the stop_daemon call that cancelled d's runner in ws.recv() returns,
\* one status event (stopped, "Stopped by user") has been emitted, one DELETE of
\* the kernel attempted, and d has left the table.
C4_StopWhileReceiving ==
    [][\A d \in Created :
          (stop_call[d] = "recv" /\ stop_call'[d] = None) =>
              /\ ret' = StopReturned(d, TRUE)
              /\ d \notin _active_daemons'
              /\ Count(events'[d], StoppedByUser) = 1
              /\ Count(events'[d], StatusEvent("stopped", "")) = 0
              /\ fx'[d].delete = 1]_vars

C4_Witness ==
    \E d \in Created :
        /\ stop_call[d] = "recv"
        /\ TaskDone(task[d])
        /\ Count(events[d], StoppedByUser) = 1

\* C5: a registered session leaves the registry only by an explicit unregister
\* call or when no running daemon that declares it is left.
C5_SessionKeptWhileInUse ==
    [][\A s \in Sessions :
          (s \in DOMAIN _active_sessions /\ s \notin DOMAIN _active_sessions') =>
              \/ unregister_code_mode_session(s)
              \/ ~\E d \in _active_daemons' :
                     /\ info'[d].code_mode_session_id = s
                     /\ info'[d].status = "running"]_vars

\* C6: a status that is no longer "running" does not change in any step.
C6_TerminalStatusIsFinal ==
    [][\A d \in Created :
          info[d].status # "running" => info'[d].status = info[d].status]_vars

C6_Witness ==
    \E d \in Created :
        /\ info[d].status = "stopped"
        /\ task[d].pc = "done"
        /\ Count(events[d], StoppedByUser) = 1

\* C7: a runner that left its loop by the deadline and was not stopped has, when
\* it has finished, emitted the timeout text once and a status event (completed,
\* "max runtime exceeded"), and its status is "completed".
C7_DeadlineCompletes ==
    \A d \in Created :
        (/\ TaskDone(task[d])
         /\ Count(events[d], TimeoutOutput(d)) > 0
         /\ info[d].status # "stopped") =>
            /\ Count(events[d], TimeoutOutput(d)) = 1
            /\ info[d].status = "completed"
            /\ Count(events[d], StatusEvent("completed", "max runtime exceeded")) = 1

\* C8: a start_daemon call is refused with the quota error exactly when its user
\* has MAX_DAEMONS_PER_USER entries with status "running" (entries with another
\* status and entries of other users do not count); a refused call creates no
\* kernel and changes no table, any other call goes on to create its kernel.
C8_QuotaRefusesAtCap ==
    [][\A u \in Users :
          (\E s \in Sessions \cup {None}, m \in MaxRuntimes : start_daemon_call(u, s, m)) =>
              IF Cardinality(RunningOf(u)) >= MAX_DAEMONS_PER_USER
              THEN /\ ret' = StartRaised(u, "RuntimeError")
                   /\ UNCHANGED <<_active_daemons, info, starting, task, kernels>>
              ELSE /\ ret' = NoRet
                   /\ SumOver(starting', StartArgs) = SumOver(starting, StartArgs) + 1
                   /\ UNCHANGED <<_active_daemons, info, task, kernels>>]_vars

\* u1 is refused at the cap while an entry of u1 that is not running exists too
C8_Witness ==
    /\ ret = StartRaised("u1", "RuntimeError")
    /\ Cardinality(RunningOf("u1")) = MAX_DAEMONS_PER_USER
    /\ \E d \in _active_daemons : info[d].status # "running"

\* C9: the step that receives a frame with another parent msg_id leaves the
\* daemon's status alone and emits nothing for the frame, whatever its msg_type;
\* the loop head that follows emits the timeout text if the deadline has passed.
C9_ForeignFrameIgnored ==
    [][\A d \in Created : \A f \in Frames(d) :
          (f.parent_msg_id # MsgId(d) /\ run_recv(d, f)) =>
              /\ info'[d] = info[d]
              /\ \/ events'[d] = events[d]
                 \/ /\ task[d].expired
                    /\ events'[d] = Append(events[d], TimeoutOutput(d))]_vars

C9_Witness ==
    \E d \in Created :
        /\ fx[d].skipped = 2
        /\ events[d] = <<StatusEvent("running", "")>>
        /\ task[d].pc = "recv"

ErrorFrameSeen(d) == Count(events[d], TracebackOutput) > 0

\* C10 as stated: a runner that received a matching error frame has, when it has
\* finished, emitted the traceback and right after it (error, "Script raised an
\* error"), and its status is "error".
C10_ErrorFrameEndsInError ==
    \A d \in Created :
        (TaskDone(task[d]) /\ ErrorFrameSeen(d)) =>
            /\ info[d].status = "error"
            /\ events[d][Len(events[d])] = ScriptError
            /\ events[d][Len(events[d]) - 1] = TracebackOutput

\* C10 amended: on a matching error frame the runner emits the traceback lines
\* joined by newlines on stderr and processes no later frame; the next event is
\* (error, "Script raised an error") with status "error", unless stop_daemon
\* cancelled the runner while the traceback was being emitted: then it is
\* (stopped, "Stopped by user") with status "stopped".
C10_ErrorFrameEndsRun ==
    \A d \in Created :
        /\ task[d].pc = "emit_tb" =>
              /\ events[d][Len(events[d])] = TracebackOutput
              /\ info[d].status \in {"running", "stopped"}
        /\ ErrorFrameSeen(d) =>
              /\ Count(events[d], TracebackOutput) = 1
              /\ task[d].pc \in {"emit_tb", "fin_delete", "fin_close", "done"}
              /\ task[d].pc # "emit_tb" =>
                    /\ events[d][Len(events[d]) - 1] = TracebackOutput
                    /\ \/ /\ info[d].status = "error"
                          /\ events[d][Len(events[d])] = ScriptError
                       \/ /\ info[d].status = "stopped"
                          /\ events[d][Len(events[d])] = StoppedByUser

C10_Witness ==
    \E d \in Created :
        /\ task[d].pc = "done"
        /\ info[d].status = "error"
        /\ events[d] = <<StatusEvent("running", ""), TracebackOutput, ScriptError>>

ScriptFinished == StatusEvent("completed", "Script finished")

\* C11: the step that receives a matching status frame with execution_state
\* "idle" sets the status to "completed", emits (completed, "Script finished")
\* and leaves the loop, and no frame is received after that event; with another
\* execution_state the step emits nothing for the frame and is back at the loop
\* head, which emits the timeout text if the deadline has passed.
C11_IdleCompletes ==
    [][\A d \in Created :
          /\ \A f \in Frames(d) :
                (f.parent_msg_id = MsgId(d) /\ f.msg_type = "status" /\ run_recv(d, f)) =>
                    IF f.content.execution_state = "idle"
                    THEN /\ info'[d].status = "completed"
                         /\ events'[d] = Append(events[d], ScriptFinished)
                         /\ task'[d].pc = "fin_delete"
                    ELSE /\ info'[d] = info[d]
                         /\ \/ events'[d] = events[d] /\ task'[d].pc = "recv"
                            \/ /\ task[d].expired
                               /\ events'[d] = Append(events[d], TimeoutOutput(d))
                               /\ task'[d].pc = "emit_timeout"
          /\ Count(events[d], ScriptFinished) > 0 =>
                /\ ~\E f \in Frames(d) : run_recv(d, f)
                /\ events'[d] = events[d]]_vars

\* a busy status frame was passed over, then an idle one ended the run
C11_Witness ==
    \E d \in Created :
        /\ received = 2
        /\ fx[d].skipped = 0
        /\ events[d] = <<StatusEvent("running", ""), ScriptFinished>>
        /\ info[d].status = "completed"
        /\ task[d].pc = "done"

\* positions in d's events of the status events with a terminal status
TerminalEvents(d) ==
    {i \in DOMAIN events[d] :
        /\ events[d][i].type = "daemon:status"
        /\ events[d][i].status \in {"completed", "stopped", "error"}}

\* C12: a runner that has returned has emitted exactly one status event with a
\* terminal status; it is the last event and its status is the entry's status.
C12_OneTerminalEvent ==
    \A d \in Created :
        task[d].pc = "done" =>
            /\ TerminalEvents(d) = {Len(events[d])}
            /\ events[d][Len(events[d])].status = info[d].status

IsOutput(e) == e.type = "daemon:output"
Outputs(d, ev) == SelectSeq(ev[d], IsOutput)

\* the output event a matching frame stands for, if any
FrameOutput(f) ==
    CASE f.msg_type = "stream" /\ f.content.text # "" ->
            <<OutputEvent(f.content.name, f.content.text)>>
      [] f.msg_type \in {"execute_result", "display_data"} /\ f.content.plain # None ->
            <<OutputEvent("stdout", f.content.plain)>>
      [] f.msg_type = "error" ->
            <<OutputEvent("stderr", Join("\n", f.content.traceback))>>
      [] OTHER -> <<>>

\* C13: the output events of a daemon only grow at their end; the step that
\* receives a matching frame appends the one output event of that frame, or
\* none, and no other step appends an output event for a frame (the loop head
\* may append the timeout text).
C13_OutputsInArrivalOrder ==
    [][\A d \in Created :
          LET old == Outputs(d, events)
              new == Outputs(d, events')
              AtLoopHead(seq) == new = seq \/ new = seq \o <<TimeoutOutput(d)>>
          IN /\ \A f \in Frames(d) :
                   (f.parent_msg_id = MsgId(d) /\ run_recv(d, f)) =>
                       /\ Len(FrameOutput(f)) <= 1
                       /\ IF FrameOutput(f) = <<>> THEN AtLoopHead(old)
                          ELSE new = old \o FrameOutput(f)
             /\ (~\E f \in Frames(d) : run_recv(d, f)) => AtLoopHead(old)]_vars

\* two matching frames arrived, stdout text then stderr text
C13_Witness ==
    \E d \in Created :
        events[d] = <<StatusEvent("running", ""), OutputEvent("stdout", "visible\n"),
                      OutputEvent("stderr", "warn\n")>>

\* C14: stop_daemon(d) returns False and changes nothing when d is not in the
\* table; when d's status is "running" it sets the status to "stopped", cancels
\* the runner task and, once that task has finished, returns True; when the
\* status is already terminal it returns True at once and changes nothing.
C14_StopDaemonCases ==
    [][\A d \in Created :
          /\ stop_daemon(d) =>
                IF d \notin _active_daemons
                THEN /\ ret' = StopReturned(d, FALSE)
                     /\ UNCHANGED <<_active_daemons, info, task, events, fx, kernels,
                                    _active_sessions, stop_call>>
                ELSE IF info[d].status = "running"
                THEN /\ info'[d].status = "stopped"
                     /\ _active_daemons' = _active_daemons
                     /\ \/ /\ ~TaskDone(task[d])
                           /\ task'[d] = [task[d] EXCEPT !.must_cancel = TRUE]
                           /\ stop_call'[d] # None
                           /\ ret' = NoRet
                        \/ /\ TaskDone(task[d])
                           /\ task'[d] = task[d]
                           /\ ret' = StopReturned(d, TRUE)
                ELSE /\ ret' = StopReturned(d, TRUE)
                     /\ UNCHANGED <<_active_daemons, info, task, events, fx, kernels,
                                    _active_sessions, stop_call>>
          /\ stop_daemon_resume(d) =>
                /\ TaskDone(task[d])
                /\ ret' = StopReturned(d, TRUE)]_vars

\* stop_daemon has just returned True for an entry whose runner is still in its
\* cleanup with a terminal status: nothing was cancelled
C14_Witness ==
    \E d \in _active_daemons :
        /\ ret = StopReturned(d, TRUE)
        /\ info[d].status \in {"completed", "error"}
        /\ task[d].pc \in InFinally
        /\ ~task[d].must_cancel

\* C15: a stop_daemon(d) call made when an earlier stop_daemon(d) has returned,
\* or has already set the status to "stopped", returns at once and changes
\* nothing: it cancels nothing and leaves the table as it was; and a daemon
\* never gets a second (stopped, "Stopped by user") event or a second DELETE.
C15_StopTwiceIsStopOnce ==
    [][\A d \in Created :
          /\ ( /\ \/ ret.op = "stop_daemon" /\ ret.daemon_id = d
                  \/ info[d].status = "stopped"
               /\ stop_daemon(d) ) =>
                /\ ret'.op = "stop_daemon" /\ ret'.daemon_id = d
                /\ UNCHANGED <<_active_daemons, info, task, events, fx, kernels,
                               _active_sessions, stop_call, cleanup>>
          /\ Count(events'[d], StoppedByUser) <= 1
          /\ fx'[d].delete <= 1]_vars

\* the entry was stopped and removed by a first call; the call that has just
\* returned False is a later one
C15_Witness ==
    \E d \in Created :
        /\ ret = StopReturned(d, FALSE)
        /\ info[d].status = "stopped"
        /\ Count(events[d], StoppedByUser) = 1
        /\ fx[d].delete = 1
        /\ task[d].pc = "done"

\* the list a cleanup_user_daemons(u) call that returns in this step works on
CleanupList(u) == IF cleanup[u].pc = "await" THEN cleanup[u].to_stop ELSE ToStop(u)

\* C16: the number cleanup_user_daemons(u) returns is the number of daemons of
\* its list that it stopped, i.e. whose status it set to "stopped" (in
\* SpecCleanup nothing else stops a daemon), also when a daemon of the list
\* ended on its own while the call waited for an earlier one.
C16_CleanupCountsStopped ==
    [][\A u \in Users :
          (ret'.op = "cleanup_user_daemons" /\ ret'.user_id = u) =>
              ret'.out = Cardinality({j \in DOMAIN CleanupList(u) :
                                         info'[CleanupList(u)[j]].status = "stopped"})]_vars

\* C17: a step of cleanup_user_daemons(u) leaves alone every entry whose user
\* is not u or whose status is not "running": its status is unchanged and its
\* runner task is not cancelled.
C17_CleanupOnlyOwnRunning ==
    [][\A u \in Users :
          (cleanup_user_daemons(u) \/ cleanup_resume(u)) =>
              \A d \in Created :
                  (info[d].user_id # u \/ info[d].status # "running") =>
                      /\ info'[d] = info[d]
                      /\ task'[d] = task[d]]_vars

\* cleanup_user_daemons("u1") has cancelled a daemon of u1 while a daemon of u2
\* is running and another entry of u1, already in error, is still in the table
C17_Witness ==
    /\ cleanup["u1"].pc = "await"
    /\ task[cleanup["u1"].to_stop[cleanup["u1"].i]].must_cancel
    /\ \E d \in _active_daemons :
          /\ info[d].user_id = "u2"
          /\ info[d].status = "running"
          /\ ~task[d].must_cancel
    /\ \E d \in _active_daemons :
          /\ info[d].user_id = "u1"
          /\ info[d].status = "error"
          /\ ~task[d].must_cancel

\* the entries of a list_daemons result that match the arguments given
Matching(list, user_id, chat_id) ==
    LET Test(e) == /\ user_id # None => e.user_id = user_id
                   /\ chat_id # None => e.chat_id = chat_id
    IN SelectSeq(list, Test)

\* C18: what list_daemons returns for a user_id, or for a user_id and a chat_id,
\* is exactly the entries of list_daemons() that match the arguments given, for
\* every value of the arguments; and the call leaves the table as it was.
C18_ListIsFilteredSubset ==
    [][ret'.op = "list_daemons" =>
          /\ ret'.out = Matching(ListLoop(InOrder(_active_daemons), None, None),
                                 ret'.user_id, ret'.chat_id)
          /\ UNCHANGED <<_active_daemons, info>>]_vars

\* C19: POST /call answers 404 when the session is not registered, otherwise
\* 404 when the tool is not in the session's catalog, otherwise 500 when the
\* entry has no invoker, without calling an invoker in these three cases;
\* otherwise it calls the invoker and answers 200; the registry is unchanged.
C19_CallErrorStatuses ==
    [][/\ ret'.op = "call_mcp_tool" => (ret'.invoked <=> ret'.status_code = 200)
       /\ \A i \in DOMAIN calls :
          (/\ Len(calls') = Len(calls)
           /\ calls[i].answer = NoAnswer
           /\ calls[i].session = <<>>
           /\ calls'[i] # calls[i]) =>
              LET s == calls[i].session_id
                  t == calls[i].tool_name
                  a == calls'[i].answer
                  invoked == calls'[i].session # <<>>
              IN /\ IF s \notin DOMAIN _active_sessions
                    THEN a.status_code = 404 /\ ~a.invoked /\ ~invoked /\ ret' = a
                    ELSE IF t \notin DOMAIN _active_sessions[s].tools
                    THEN a.status_code = 404 /\ ~a.invoked /\ ~invoked /\ ret' = a
                    ELSE IF ~_active_sessions[s].tools[t].callable
                    THEN a.status_code = 500 /\ ~a.invoked /\ ~invoked /\ ret' = a
                    ELSE invoked /\ a = NoAnswer
                 /\ _active_sessions' = _active_sessions]_vars

\* a registered session whose catalog entry t2 has no invoker was asked for t2
C19_Witness ==
    /\ ret.op = "call_mcp_tool"
    /\ ret.status_code = 500
    /\ ~ret.invoked
    /\ ret.session_id \in DOMAIN _active_sessions
    /\ ret.tool_name = "t2"
    /\ "t1" \in DOMAIN _active_sessions[ret.session_id].tools

\* C20: the body of every 200 answer of POST /call has exactly one of result
\* and error non-null, whatever the invoker returned or raised.
C20_ExactlyOneOfResultError ==
    (ret.op = "call_mcp_tool" /\ ret.status_code = 200) =>
        (ret.result # None) # (ret.error # None)

\* C21: whenever the invoker raises during POST /call, with any message (the
\* empty one included), the proxy answers 200 with the error in the body and
\* the generated binding raises in the user code instead of returning a value.
C21_InvokerFailureRaisesInUserCode ==
    [][(ret'.op = "_call_mcp_tool" /\ ret'.response.invoked
            /\ ret'.response.error # None) =>
          /\ ret'.response.status_code = 200
          /\ ret'.raised]_vars

\* C22: when a session is unregistered after a POST /call request for it has
\* arrived and before the handler looks the session up, the handler answers
\* 404 and calls no invoker.
C22_UnregisteredBeforeLookup ==
    [][\A i \in DOMAIN calls :
          (/\ Len(calls') = Len(calls)
           /\ calls[i].answer = NoAnswer
           /\ calls[i].session = <<>>
           /\ calls'[i].answer # NoAnswer
           /\ calls[i].on_arrival # <<>>
           /\ calls[i].session_id \notin DOMAIN _active_sessions) =>
              /\ calls'[i].answer.status_code = 404
              /\ ~calls'[i].answer.invoked
              /\ ret' = calls'[i].answer]_vars

\* a request for a tool with an invoker, of a session registered when the
\* request arrived and unregistered since, was answered 404
C22_Witness ==
    \E i \in DOMAIN calls :
        /\ calls[i].on_arrival # <<>>
        /\ calls[i].tool_name \in DOMAIN calls[i].on_arrival[1].tools
        /\ calls[i].on_arrival[1].tools[calls[i].tool_name].callable
        /\ calls[i].session_id \notin DOMAIN _active_sessions
        /\ calls[i].answer.status_code = 404
        /\ ~calls[i].answer.invoked
        /\ ret = calls[i].answer

IsTextItem(item) ==
    item.kind = "dict" /\ \E i \in DOMAIN item.val :
        item.val[i][1] = TypeKey /\ item.val[i][2] = PyStr(TextKey)

MapsTo(item, mapped) ==
    IF ~IsTextItem(item) THEN mapped = item
    ELSE \A i \in DOMAIN item.val :
            item.val[i][1] = TextKey =>
                LET raw == item.val[i][2]
                IN /\ raw.kind # "str" => mapped = raw
                   /\ raw.kind = "str" =>
                        /\ \A v \in JsonValues : raw.val = json_dumps(v) => mapped = v
                        /\ raw.val \in InvalidTexts => mapped = raw

\* C24: the unwrapper returns a non-list result unchanged; of a list it maps
\* every text item to the value its text is the JSON of (to the raw text when
\* the text is not JSON) and passes every other item through; it returns the
\* one mapped element of a list of one, and otherwise the mapped elements as a
\* list of the same length and order.
C24_UnwrapContract ==
    ret.op = "_unwrap_mcp_content" =>
        IF ret.arg.kind # "list" THEN ret.out = ret.arg
        ELSE LET items == ret.arg.val
             IN IF Len(items) = 1 THEN MapsTo(items[1], ret.out)
                ELSE /\ ret.out.kind = "list"
                     /\ Len(ret.out.val) = Len(items)
                     /\ \A i \in DOMAIN items : MapsTo(items[i], ret.out.val[i])

\* one text item holding the JSON of a dict has yielded that dict
C24_Witness ==
    /\ ret.op = "_unwrap_mcp_content"
    /\ ret.arg = PyList(<<TextItem(PyStr(
           <<"{", "\"", "k", "\"", ":", " ", "\"", "v", "\"", "}">>))>>)
    /\ ret.out = PyDict(<<<<<<"k">>, PyStr(<<"v">>)>>>>)

\* C25: for every mcp-type tool of the catalog given to generate_mcp_bindings
\* the generated mcp_tools object has a method that posts that tool's canonical
\* name, also when several tools get the same method name.
C25_EveryToolHasItsMethod ==
    (ret.op = "generate_mcp_bindings" /\ ValidPython(ret.program)) =>
        \A i \in DOMAIN ret.catalog :
            ret.catalog[i].type = "mcp" =>
                \E name \in MethodNames(ret.program) :
                    Bound(ret.program, name).full_name = ret.catalog[i].name

\* C26: a generated method forwards exactly the parameters whose bound value is
\* not None, under their schema names (False, 0 and "" are forwarded, those
\* left at their default are not).
C26_ForwardsExactlyNonNone ==
    ret.op = "mcp_tools method" =>
        /\ ret.raised = None
        /\ ret.tool_name = ret.method.full_name
        /\ {ret.arguments[i] : i \in DOMAIN ret.arguments}
              = {<<ret.method.params[i].name, ret.values[i]>> :
                    i \in {j \in DOMAIN ret.values : ret.values[j] # PyNone}}

\* C27: for any well-formed catalog, whatever the names of the parameters and
\* the mix and order of required and optional ones, the text returned by
\* generate_mcp_bindings is a syntactically valid Python program.
C27_GeneratedTextIsValidPython ==
    ret.op = "generate_mcp_bindings" => ValidPython(ret.program)

\* C28: a malformed frame received by the runner is skipped: it produces no
\* event, leaves the daemon's status "running", and the runner goes on to
\* receive the next frame.
C28_MalformedFrameSkipped ==
    [][\A d \in Created : \A text \in MalformedTexts :
          run_recv_malformed(d, text) =>
              /\ events'[d] = events[d]
              /\ info'[d].status = info[d].status
              /\ task'[d].pc \in {"recv", "emit_timeout"}]_vars

\* the steps of `finally` have all been taken for daemon d
FullCleanup(d) ==
    /\ fx[d].delete = 1
    /\ fx[d].close = 1
    /\ fx[d].pop = 1
    /\ d \notin _active_daemons
    /\ (task[d].info /\ info[d].code_mode_session_id # None) => fx[d].unregister = 1

\* the runner of d has left `try` after an exception other than cancellation
Failed(d) == task[d].exc # None /\ task[d].pc \notin InTry

EndedInError(d) ==
    /\ task[d].info => info[d].status = "error"
    /\ Count(events[d], StatusEvent("error", task[d].exc)) = 1
    /\ Count(events[d], StoppedByUser) = 0

EmitPoints == {"emit_running", "emit_output", "emit_tb", "emit_timeout"}

\* C30: a failing event sink never changes the runner's behaviour.  With a sink
\* that raises on every call, or with none, the runner leaves every _emit_*
\* call the way it does with a working sink: back to the head of the loop
\* after the running status or an output, on to status "error" and its event
\* after a traceback, on to closing the WebSocket after the timeout text; the
\* sink never makes the run fail, and a run that ends has cleaned up.
C30_SinkNeverChangesRun ==
    [][\A d \in Created :
          /\ (/\ d \in DOMAIN task
              /\ task[d].sink # "working"
              /\ task[d].pc \in EmitPoints
              /\ ~task[d].must_cancel
              /\ task'[d].pc # task[d].pc) =>
                 /\ task[d].pc \in {"emit_running", "emit_output"} =>
                       /\ task'[d].pc \in {"recv", "emit_timeout"}
                       /\ info'[d] = info[d]
                       /\ fx'[d] = fx[d]
                 /\ task[d].pc = "emit_tb" =>
                       /\ task'[d].pc = "fin_delete"
                       /\ info'[d].status = "error"
                       /\ events'[d] = Append(events[d], ScriptError)
                 /\ task[d].pc = "emit_timeout" =>
                       /\ task'[d].pc = "ws_close"
                       /\ info'[d] = info[d]
                       /\ events'[d] = events[d]
          /\ (d \in DOMAIN task' /\ task'[d].sink # "working") =>
                 /\ task'[d].exc # SinkErrorText
                 /\ task'[d].pc = "done" => FullCleanup(d)']_vars

\* with a sink that raises on every call, a run has emitted an output and has
\* ended "completed" with its cleanup done
C30_Witness ==
    \E d \in Created :
        /\ task[d].sink = "raising"
        /\ task[d].pc = "done"
        /\ info[d].status = "completed"
        /\ \E i \in DOMAIN events[d] : IsOutput(events[d][i])
        /\ FullCleanup(d)

\* C31: when kernel creation fails inside start_daemon, the caller gets the
\* gateway's error, no runner task has been spawned and the daemon table is as
\* it was before.
C31_StartFailureLeavesNoTrace ==
    [][\A a \in StartArgs :
          (starting'[a] < starting[a] /\ ret'.raised # None) =>
              /\ ret' = StartRaised(a[1], "ClientResponseError")
              /\ task' = task
              /\ _active_daemons' = _active_daemons
              /\ info' = info]_vars

\* a start has failed at the gateway while a daemon of the same user is running
C31_Witness ==
    /\ ret.op = "start_daemon"
    /\ ret.raised = "ClientResponseError"
    /\ \E d \in _active_daemons :
          /\ info[d].user_id = ret.user_id
          /\ info[d].status = "running"
          /\ task[d].pc = "recv"

\* C40: when kernel creation fails after _create_jupyter_session has opened its
\* aiohttp session, that session is closed by the time the error reaches the
\* caller of start_daemon: the sessions left open are those of the daemons in
\* the table and of the starts still under way.
C40_FailedStartClosesHttpSession ==
    [][\A a \in StartArgs :
          (starting'[a] < starting[a] /\ ret'.raised # None) =>
              /\ http'.closed = http.closed + 1
              /\ http'.opened - http'.closed
                    <= Cardinality(_active_daemons') + SumOver(starting', StartArgs)]_vars

\* C35: a runner task that has taken its first step found its own entry in the
\* daemon table then, so its status updates, its session's unregistration and
\* the chat_id/message_id of its events have an entry to work on.
C35_RunnerFindsItsEntry ==
    \A d \in Created :
        task[d].pc \notin {"created", "unstarted"} => task[d].info

\* two runners have started, the second while the first was already cleaning up
C35_Witness ==
    \E d, e \in Created :
        /\ d < e
        /\ task[d].pc \in InFinally
        /\ task[e].pc = "connect"
        /\ task[e].info

\* C32: an entry leaves the daemon table only in the cleanup of its own runner,
\* and only after the DELETE of its kernel was attempted and the HTTP session
\* closed; when the entry carries a session id, that session is unregistered
\* by then. This holds whatever the status the runner ended with.
C32_RemovedOnlyByOwnCleanup ==
    [][\A d \in Created :
          (d \in _active_daemons /\ d \notin _active_daemons') =>
              /\ task[d].pc = "fin_close"
              /\ task'[d].pc = "done"
              /\ fx[d].delete = 1
              /\ fx[d].close = 1
              /\ d \notin kernels
              /\ fx'[d].pop = 1
              /\ info[d].code_mode_session_id # None =>
                    /\ fx'[d].unregister = 1
                    /\ info[d].code_mode_session_id \notin DOMAIN _active_sessions']_vars

\* an entry with a session id was removed after a run that ended by the deadline
C32_Witness ==
    \E d \in Created :
        /\ d \notin _active_daemons
        /\ fx[d].pop = 1
        /\ fx[d].unregister = 1
        /\ info[d].code_mode_session_id = "s1"
        /\ info[d].status = "running"
        /\ Count(events[d], TimeoutOutput(d)) = 1

C36_InFlightCallSurvivesUnregister ==
    [][\A i \in DOMAIN calls :
          (/\ Len(calls') = Len(calls)
           /\ calls[i].session # <<>>
           /\ calls[i].answer = NoAnswer
           /\ calls'[i].answer # NoAnswer) =>
              LET a == calls'[i].answer
              IN /\ a.status_code = 200
                 /\ a.invoked
                 /\ a.session_id = calls[i].session_id
                 /\ a.tool_name = calls[i].tool_name
                 /\ \E o \in ToolOutcomes :
                       /\ o.kind = "return" => a.result = o.value /\ a.error = None
                       /\ o.kind = "raise" => a.error = o.value /\ a.result = None
                 /\ ret' = a]_vars

\* a call was answered with its invoker's result after its session had been
\* unregistered during the invocation
C36_Witness ==
    \E i \in DOMAIN calls :
        /\ calls[i].session # <<>>
        /\ calls[i].session_id \notin DOMAIN _active_sessions
        /\ calls[i].answer.status_code = 200
        /\ calls[i].answer.result = "envelope"
        /\ ret = calls[i].answer

\* C38: when cleanup_user_daemons(u) returns, no entry of u that was stored
\* before the call began has status "running": a running entry of u left in
\* the table comes from a start_daemon that stored it while the call ran.
C38_NoRunningLeftAfterCleanup ==
    [][\A u \in Users :
          (/\ ret'.op = "cleanup_user_daemons"
           /\ ret'.user_id = u
           /\ cleanup'[u].pc = "idle") =>
              LET known == IF cleanup[u].pc = "await" THEN cleanup[u].known
                           ELSE Len(info)
              IN \A d \in _active_daemons' :
                    (info'[d].user_id = u /\ d <= known) =>
                        info'[d].status # "running"]_vars

\* cleanup_user_daemons(u) has returned after stopping two daemons of u, one of
\* them still in the table, while a daemon of another user goes on running
C38_Witness ==
    /\ ret.op = "cleanup_user_daemons"
    /\ ret.out = 2
    /\ \E d \in _active_daemons :
          info[d].user_id = ret.user_id /\ info[d].status = "stopped"
    /\ \E d \in _active_daemons :
          info[d].user_id # ret.user_id /\ info[d].status = "running"

\* C37: the receive loop always ends. A receive timeout before the deadline
\* emits nothing, changes no status and waits again; once the deadline has
\* passed, a receive timeout or a frame with a foreign msg_id makes the runner
\* emit the timeout text and leave the loop, and the runner never waits for a
\* frame again; every runner that waits for a frame gets to its cleanup later.
C37_ReceiveLoopEnds ==
    /\ [][\A d \in Created :
             /\ (run_recv_timeout(d) /\ ~task[d].expired) =>
                   /\ task'[d] = task[d]
                   /\ events'[d] = events[d]
                   /\ info'[d] = info[d]
             /\ (run_recv_timeout(d) /\ task[d].expired) =>
                   /\ task'[d].pc = "emit_timeout"
                   /\ events'[d] = Append(events[d], TimeoutOutput(d))
                   /\ info'[d] = info[d]
             /\ \A f \in Frames(d) :
                   (run_recv(d, f) /\ ~Matches(d, f) /\ task[d].expired) =>
                       task'[d].pc = "emit_timeout"
             /\ (task[d].expired /\ task'[d].pc = "recv") => task[d].pc = "recv"]_vars
    /\ \A d \in 1..MaxDaemons :
          (d \in Created /\ task[d].pc = "recv")
              ~> (d \in Created /\ task[d].pc \in InFinally \cup {"done"})

\* a runner left its loop by the deadline having received nothing but a frame
\* with a foreign msg_id, and has cleaned up
C37_Witness ==
    \E d \in Created :
        /\ task[d].pc = "done"
        /\ task[d].max_runtime = 3600
        /\ fx[d].skipped = 1
        /\ received = 1
        /\ events[d] = <<StatusEvent("running", ""), TimeoutOutput(d)>>

\* C33: in list_tool_specs and call_tool, _ensure_connected does nothing when
\* the client holds a live session; it reconnects with the saved url and headers
\* when there is no session after an earlier connect that succeeded; and on a
\* client for which no connect ever succeeded the call fails with the
\* not-connected error, no connection being tried.
C33_EnsureConnectedContract ==
    [][ret'.op \in {"list_tool_specs", "call_tool"} =>
          LET live == client.session # None /\ client.session \notin transport.closed
              tried == transport'.attempts > transport.attempts
          IN /\ live => ~tried /\ client' = client
             /\ (client.session = None /\ transport.connects > 0) =>
                   /\ tried
                   /\ transport'.attempts = transport.attempts + 1
                   /\ transport'.last = <<client._url, client._headers>>
             /\ transport.connects = 0 =>
                   /\ ~tried
                   /\ ret'.raised = NotConnected]_vars

\* C39: when a connect attempt has failed (a timeout of initialize() on a first
\* connect included) the client's session is None, and the client never holds
\* a session that has been closed.
C39_FailedConnectLeavesNoSession ==
    [][/\ (/\ transport'.attempts > transport.attempts
           /\ ret'.raised \in {"ConnectError", "TimeoutError"}) =>
              client'.session = None
       /\ client'.session # None => client'.session \notin transport'.closed]_vars

====
